---- MODULE Spec2Model ----
(***************************************************************************)
(* A model of bigcache's shard: the byte-packed entry codec (entry.go),    *)
(* the byte ring queue (bytes_queue.go), the shard (shard.go) and the      *)
(* controller's routing of the public operations (bigcache.go).            *)
(*                                                                         *)
(* The ring's buffer is modelled byte by byte: a sequence of bytes in      *)
(* which entries are encoded little-endian exactly as qref.write does, so  *)
(* that a read at an offset sees whatever bytes are there.                 *)
(***************************************************************************)
EXTENDS Integers, Sequences, FiniteSets, TLC

(***************************************************************************)
(* entry.go: layout of a serialized entry                                  *)
(***************************************************************************)
sizeLen == 4
sizeTS == 8
sizeHash == 8
sizeKeyLen == 2

offLen == 0
offTS == offLen + sizeLen
offHash == offTS + sizeTS
offKeyLen == offHash + sizeHash
offKeyStr == offKeyLen + sizeKeyLen

\* Values at or above Beyond stand for "larger than anything the model
\* holds": a decoded integer saturates there, which keeps the decoding of
\* overwritten bytes inside the range of the checker's integers.  Every
\* comparison of the code against an offset, a capacity, a hash or a
\* timestamp of the model gives the same answer for the saturated value
\* as for the exact one.
Beyond == 256 * 256 * 64

Min(a, b) == IF a < b THEN a ELSE b
Max(a, b) == IF a > b THEN a ELSE b

\* binary.LittleEndian.PutUintNN: the w low bytes of n, lowest first.
RECURSIVE LittleEndianPut(_, _)
LittleEndianPut(n, w) ==
    IF w = 0 THEN <<>>
    ELSE <<n % 256>> \o LittleEndianPut(n \div 256, w - 1)

\* binary.LittleEndian.UintNN of the w bytes of buf at offset off
\* (offsets count from 0, sequences from 1), saturated at Beyond.
RECURSIVE LittleEndianUint(_, _, _)
LittleEndianUint(buf, off, w) ==
    IF w = 0 THEN 0
    ELSE Min(LittleEndianUint(buf, off + 1, w - 1) * 256 + buf[off + 1], Beyond)

\* A Go slice expression buf[a:b] or an NN-bit read at a is in range.
InRange(buf, a, b) == 0 <= a /\ a <= b /\ b <= Len(buf)

\* copy(buf[off:], bytes), for bytes that fit.
Overlay(buf, off, bytes) ==
    SubSeq(buf, 1, off) \o bytes \o SubSeq(buf, off + Len(bytes) + 1, Len(buf))

Zeros(n) == [i \in 1..n |-> 0]

\* CacheEntry.Size; SizeNil is (*CacheEntry).Size(nil), the header alone.
CacheEntry_Size(ce) == offKeyStr + Len(ce.Key) + Len(ce.Data)
SizeNil == offKeyStr

\* qref.size / ts / hash and the key length, read where they are stored.
qref_size(r, buf) == LittleEndianUint(buf, r + offLen, sizeLen)
qref_ts(r, buf) == LittleEndianUint(buf, r + offTS, sizeTS)
qref_hash(r, buf) == LittleEndianUint(buf, r + offHash, sizeHash)
qref_keylen(r, buf) == LittleEndianUint(buf, r + offKeyLen, sizeKeyLen)

\* The header of an entry at r can be read without a slice-bounds panic.
HeaderInRange(r, buf) == InRange(buf, r, r + offKeyStr)
\* ... and so can its key and its data.
BodyInRange(r, buf) ==
    /\ HeaderInRange(r, buf)
    /\ InRange(buf, r + offKeyStr, r + offKeyStr + qref_keylen(r, buf))
    /\ InRange(buf, r + offKeyStr + qref_keylen(r, buf), r + qref_size(r, buf))

qref_valid(r, buf) ==
    IF r < 0 THEN FALSE
    ELSE IF Len(buf) < sizeLen THEN FALSE
    ELSE qref_size(r, buf) >= offKeyStr \/ Len(buf) >= qref_size(r, buf)

qref_key(r, buf) ==
    SubSeq(buf, r + offKeyStr + 1, r + offKeyStr + qref_keylen(r, buf))

qref_data(r, buf) ==
    SubSeq(buf, r + offKeyStr + qref_keylen(r, buf) + 1, r + qref_size(r, buf))

\* qref.read: the entry decoded at r.
qref_read(r, buf) ==
    [TS |-> qref_ts(r, buf), Hash |-> qref_hash(r, buf),
     Key |-> qref_key(r, buf), Data |-> qref_data(r, buf)]

\* The bytes qref.write stores for ce.
Encode(ce) ==
    LittleEndianPut(CacheEntry_Size(ce), sizeLen)
        \o LittleEndianPut(ce.TS, sizeTS)
        \o LittleEndianPut(ce.Hash, sizeHash)
        \o LittleEndianPut(Len(ce.Key), sizeKeyLen)
        \o ce.Key \o ce.Data

qref_write(r, buf, ce) == Overlay(buf, r, Encode(ce))

\* qref.plug: [r, s) becomes one entry of size s - r, all zero after the size.
qref_plug(r, s, buf) ==
    Overlay(buf, r, LittleEndianPut(s - r, sizeLen) \o Zeros(s - r - sizeLen))

qref_clearHash(r, buf) == Overlay(buf, r + offHash, Zeros(sizeHash))

(***************************************************************************)
(* bytes_queue.go: the ring.  A queue is the record                        *)
(*   [count, maxCapacity, array, head, tail, right]                        *)
(* and an operation returns the queue it leaves with its results.  The     *)
(* error "panic" stands for a Go run-time panic (slice bounds out of       *)
(* range); the queue returned with it is the one the operation started on. *)
(***************************************************************************)
newBytesQueue(initialCapacity, maxCapacity_) ==
    [count |-> 0, maxCapacity |-> maxCapacity_, array |-> Zeros(initialCapacity),
     head |-> 0, tail |-> 0, right |-> 0]

bytesQueue_cap(q) == Len(q.array)
bytesQueue_len(q) == q.count

\* expandCapacity without its clamp to maxCapacity (bytes_queue.go:93-95
\* left out): the doubling alone decides the new capacity.
expandCapacity_Unclamped(q, minimum) ==
    LET c0 == bytesQueue_cap(q)
        c1 == IF c0 < minimum THEN c0 + minimum ELSE c0
    IN  c1 * 2

\* expandCapacity that doubles the larger of the capacity and the entry.
expandCapacity_LargerDoubled(q, minimum) ==
    LET c2 == Max(bytesQueue_cap(q), minimum) * 2
    IN  IF q.maxCapacity > 0 /\ c2 > q.maxCapacity THEN q.maxCapacity ELSE c2

\* The capacity expand allocates for an entry of `minimum` bytes.
expandCapacity(q, minimum) ==
    LET c0 == bytesQueue_cap(q)
        c1 == IF c0 < minimum THEN c0 + minimum ELSE c0
        c2 == c1 * 2
    IN  IF q.maxCapacity > 0 /\ c2 > q.maxCapacity THEN q.maxCapacity ELSE c2

\* expand that leaves the tail where it found it in a wrapped ring
\* (bytes_queue.go:115 left out): the next push lands in the plug's gap.
bytesQueue_expand_TailKept(q, minimum) ==
    LET capacity == expandCapacity(q, minimum)
        copied == Overlay(Zeros(capacity), 0, SubSeq(q.array, 1, q.right))
    IN  IF capacity < minimum \/ capacity <= 0
        THEN [q |-> q, err |-> "ErrQueueEntryTooBig"]
        ELSE IF q.right = 0
        THEN [q |-> [q EXCEPT !.array = Zeros(capacity)], err |-> "nil"]
        ELSE IF q.tail < q.head
        THEN IF q.head - q.tail < sizeLen
             THEN [q |-> q, err |-> "panic"]
             ELSE [q |-> [q EXCEPT !.array = qref_plug(q.tail, q.head, copied),
                                   !.head = 0,
                                   !.count = q.count + 1],
                   err |-> "nil"]
        ELSE [q |-> [q EXCEPT !.array = copied], err |-> "nil"]

\* expand that copies the old array up to the tail instead of up to the
\* right margin (bytes_queue.go:104 with q.tail for q.right).
bytesQueue_expand_CopyToTail(q, minimum) ==
    LET capacity == expandCapacity(q, minimum)
        copied == Overlay(Zeros(capacity), 0, SubSeq(q.array, 1, q.tail))
    IN  IF capacity < minimum \/ capacity <= 0
        THEN [q |-> q, err |-> "ErrQueueEntryTooBig"]
        ELSE IF q.right = 0
        THEN [q |-> [q EXCEPT !.array = Zeros(capacity)], err |-> "nil"]
        ELSE IF q.tail < q.head
        THEN IF q.head - q.tail < sizeLen
             THEN [q |-> q, err |-> "panic"]
             ELSE [q |-> [q EXCEPT !.array = qref_plug(q.tail, q.head, copied),
                                   !.head = 0,
                                   !.tail = q.right,
                                   !.count = q.count + 1],
                   err |-> "nil"]
        ELSE [q |-> [q EXCEPT !.array = copied], err |-> "nil"]

\* expand that does not plug the gap (bytes_queue.go:112 left out).
bytesQueue_expand_NoPlug(q, minimum) ==
    LET capacity == expandCapacity(q, minimum)
        copied == Overlay(Zeros(capacity), 0, SubSeq(q.array, 1, q.right))
    IN  IF capacity < minimum \/ capacity <= 0
        THEN [q |-> q, err |-> "ErrQueueEntryTooBig"]
        ELSE IF q.right = 0
        THEN [q |-> [q EXCEPT !.array = Zeros(capacity)], err |-> "nil"]
        ELSE IF q.tail < q.head
        THEN [q |-> [q EXCEPT !.array = copied,
                              !.head = 0,
                              !.tail = q.right,
                              !.count = q.count + 1],
              err |-> "nil"]
        ELSE [q |-> [q EXCEPT !.array = copied], err |-> "nil"]

\* expand that does not count the plug (bytes_queue.go:116 left out).
bytesQueue_expand_PlugNotCounted(q, minimum) ==
    LET capacity == expandCapacity(q, minimum)
        copied == Overlay(Zeros(capacity), 0, SubSeq(q.array, 1, q.right))
    IN  IF capacity < minimum \/ capacity <= 0
        THEN [q |-> q, err |-> "ErrQueueEntryTooBig"]
        ELSE IF q.right = 0
        THEN [q |-> [q EXCEPT !.array = Zeros(capacity)], err |-> "nil"]
        ELSE IF q.tail < q.head
        THEN IF q.head - q.tail < sizeLen
             THEN [q |-> q, err |-> "panic"]
             ELSE [q |-> [q EXCEPT !.array = qref_plug(q.tail, q.head, copied),
                                   !.head = 0,
                                   !.tail = q.right],
                   err |-> "nil"]
        ELSE [q |-> [q EXCEPT !.array = copied], err |-> "nil"]

bytesQueue_expand(q, minimum) ==
    LET capacity == expandCapacity(q, minimum)
        copied == Overlay(Zeros(capacity), 0, SubSeq(q.array, 1, q.right))
    IN  IF capacity < minimum \/ capacity <= 0
        THEN [q |-> q, err |-> "ErrQueueEntryTooBig"]
        ELSE IF q.right = 0
        THEN [q |-> [q EXCEPT !.array = Zeros(capacity)], err |-> "nil"]
        ELSE IF q.tail < q.head
        THEN IF q.head - q.tail < sizeLen
             THEN [q |-> q, err |-> "panic"]
             ELSE [q |-> [q EXCEPT !.array = qref_plug(q.tail, q.head, copied),
                                   !.head = 0,
                                   !.tail = q.right,
                                   !.count = q.count + 1],
                   err |-> "nil"]
        ELSE [q |-> [q EXCEPT !.array = copied], err |-> "nil"]

\* pushMakeRoom that wraps whenever the entry ends before head, and writes
\* into the gap of a wrapped ring whenever it ends before head.
pushMakeRoom_UpToHead(q, size) ==
    LET full == q.maxCapacity > 0 /\ bytesQueue_cap(q) + size >= q.maxCapacity
    IN  IF q.tail >= q.head
        THEN IF bytesQueue_cap(q) - q.tail < size
             THEN IF q.head > size
                  THEN [q |-> [q EXCEPT !.tail = 0], err |-> "nil"]
                  ELSE IF full
                  THEN [q |-> q, err |-> "ErrQueueFull"]
                  ELSE bytesQueue_expand(q, size)
             ELSE [q |-> q, err |-> "nil"]
        ELSE IF (q.head - q.tail) <= size
             THEN IF full
                  THEN [q |-> q, err |-> "ErrQueueFull"]
                  ELSE bytesQueue_expand(q, size)
             ELSE [q |-> q, err |-> "nil"]

\* pushMakeRoom that wraps as soon as the entry fits before head, without
\* the margin of one header (bytes_queue.go:50 with blobSize left out).
pushMakeRoom_NoMargin(q, size) ==
    LET full == q.maxCapacity > 0 /\ bytesQueue_cap(q) + size >= q.maxCapacity
    IN  IF q.tail >= q.head
        THEN IF bytesQueue_cap(q) - q.tail < size
             THEN IF q.head >= size
                  THEN [q |-> [q EXCEPT !.tail = 0], err |-> "nil"]
                  ELSE IF full
                  THEN [q |-> q, err |-> "ErrQueueFull"]
                  ELSE bytesQueue_expand(q, size)
             ELSE [q |-> q, err |-> "nil"]
        ELSE IF (q.head - q.tail) - SizeNil < size
             THEN IF full
                  THEN [q |-> q, err |-> "ErrQueueFull"]
                  ELSE bytesQueue_expand(q, size)
             ELSE [q |-> q, err |-> "nil"]

\* The first half of push: where the entry will go (wrapping the tail or
\* expanding the array), or the error push returns.
pushMakeRoom(q, size) ==
    LET full == q.maxCapacity > 0 /\ bytesQueue_cap(q) + size >= q.maxCapacity
    IN  IF q.tail >= q.head
        THEN IF bytesQueue_cap(q) - q.tail < size
             THEN IF q.head - SizeNil >= size
                  THEN [q |-> [q EXCEPT !.tail = 0], err |-> "nil"]
                  ELSE IF full
                  THEN [q |-> q, err |-> "ErrQueueFull"]
                  ELSE bytesQueue_expand(q, size)
             ELSE [q |-> q, err |-> "nil"]
        ELSE IF (q.head - q.tail) - SizeNil < size
             THEN IF full
                  THEN [q |-> q, err |-> "ErrQueueFull"]
                  ELSE bytesQueue_expand(q, size)
             ELSE [q |-> q, err |-> "nil"]

\* push that counts the entry before it looks for room (bytes_queue.go:79
\* moved to the top of push).
bytesQueue_push_CountedFirst(q, ce) ==
    LET size == CacheEntry_Size(ce)
        Store(room) ==
            IF room.err # "nil"
            THEN [q |-> [q EXCEPT !.count = q.count + 1],
                  ref |-> 0, err |-> room.err]
            ELSE IF ~InRange(room.q.array, room.q.tail, room.q.tail + size)
            THEN [q |-> q, ref |-> 0, err |-> "panic"]
            ELSE [q |-> [room.q EXCEPT
                            !.array = qref_write(room.q.tail, room.q.array, ce),
                            !.tail = room.q.tail + size,
                            !.right = IF room.q.tail + size > room.q.head
                                      THEN room.q.tail + size ELSE room.q.right,
                            !.count = room.q.count + 1],
                  ref |-> room.q.tail, err |-> "nil"]
    IN  Store(pushMakeRoom(q, size))

bytesQueue_push(q, ce) ==
    LET size == CacheEntry_Size(ce)
        Store(room) ==
            IF room.err # "nil"
            THEN [q |-> q, ref |-> 0, err |-> room.err]
            ELSE IF ~InRange(room.q.array, room.q.tail, room.q.tail + size)
            THEN [q |-> q, ref |-> 0, err |-> "panic"]
            ELSE [q |-> [room.q EXCEPT
                            !.array = qref_write(room.q.tail, room.q.array, ce),
                            !.tail = room.q.tail + size,
                            !.right = IF room.q.tail + size > room.q.head
                                      THEN room.q.tail + size ELSE room.q.right,
                            !.count = room.q.count + 1],
                  ref |-> room.q.tail, err |-> "nil"]
    IN  Store(pushMakeRoom(q, size))

\* pop that does not count the entry out (bytes_queue.go:140 left out).
bytesQueue_pop_CountKept(q) ==
    LET Advance(h1) ==
            LET atRight == h1 = q.right
                t1 == IF atRight /\ q.tail = q.right THEN 0 ELSE q.tail
            IN  [q |-> [q EXCEPT !.head = IF atRight THEN 0 ELSE h1,
                                 !.tail = t1,
                                 !.right = IF atRight THEN t1 ELSE q.right],
                 ref |-> q.head, err |-> "nil"]
    IN  IF q.count = 0
        THEN [q |-> q, ref |-> -1, err |-> "ErrQueueEmpty"]
        ELSE IF ~InRange(q.array, q.head, q.head + sizeLen)
        THEN [q |-> q, ref |-> -1, err |-> "panic"]
        ELSE IF ~qref_valid(q.head, q.array)
        THEN [q |-> q, ref |-> -1, err |-> "ErrQueueInvalidIndex"]
        ELSE Advance(Min(q.head + qref_size(q.head, q.array), Beyond))

\* pop without the wrap of head at the right margin (bytes_queue.go:133-139
\* left out).
bytesQueue_pop_NoWrap(q) ==
    LET Advance(h1) ==
            [q |-> [q EXCEPT !.head = h1, !.count = q.count - 1],
             ref |-> q.head, err |-> "nil"]
    IN  IF q.count = 0
        THEN [q |-> q, ref |-> -1, err |-> "ErrQueueEmpty"]
        ELSE IF ~InRange(q.array, q.head, q.head + sizeLen)
        THEN [q |-> q, ref |-> -1, err |-> "panic"]
        ELSE IF ~qref_valid(q.head, q.array)
        THEN [q |-> q, ref |-> -1, err |-> "ErrQueueInvalidIndex"]
        ELSE Advance(Min(q.head + qref_size(q.head, q.array), Beyond))

bytesQueue_pop(q) ==
    LET Advance(h1) ==
            LET atRight == h1 = q.right
                t1 == IF atRight /\ q.tail = q.right THEN 0 ELSE q.tail
            IN  [q |-> [q EXCEPT !.head = IF atRight THEN 0 ELSE h1,
                                 !.tail = t1,
                                 !.right = IF atRight THEN t1 ELSE q.right,
                                 !.count = q.count - 1],
                 ref |-> q.head, err |-> "nil"]
    IN  IF q.count = 0
        THEN [q |-> q, ref |-> -1, err |-> "ErrQueueEmpty"]
        ELSE IF ~InRange(q.array, q.head, q.head + sizeLen)
        THEN [q |-> q, ref |-> -1, err |-> "panic"]
        ELSE IF ~qref_valid(q.head, q.array)
        THEN [q |-> q, ref |-> -1, err |-> "ErrQueueInvalidIndex"]
        ELSE Advance(Min(q.head + qref_size(q.head, q.array), Beyond))

bytesQueue_peek(q, r) ==
    IF q.count = 0 THEN "ErrQueueEmpty"
    ELSE IF r >= 0 /\ Len(q.array) >= sizeLen /\ ~InRange(q.array, r, r + sizeLen)
    THEN "panic"
    ELSE IF ~qref_valid(r, q.array) \/ r > q.right THEN "ErrQueueInvalidIndex"
    ELSE "nil"

bytesQueue_oldest(q) ==
    LET Oldest(err) == [ref |-> IF err = "nil" THEN q.head ELSE -1, err |-> err]
    IN  Oldest(bytesQueue_peek(q, q.head))

\* collide, get, getTS, getHash, getKey, getDataCopy read the entry at r;
\* the caller has checked that the bytes they slice are in range.
bytesQueue_collide(q, r, key) == key # qref_key(r, q.array)
bytesQueue_getTS(q, r) == qref_ts(r, q.array)
bytesQueue_getHash(q, r) == qref_hash(r, q.array)
bytesQueue_getKey(q, r) == qref_key(r, q.array)
bytesQueue_getDataCopy(q, r) == qref_data(r, q.array)

bytesQueue_get(q, r) ==
    IF r >= 0 /\ Len(q.array) >= sizeLen /\ ~InRange(q.array, r, r + sizeLen)
    THEN [ce |-> <<>>, err |-> "panic"]
    ELSE IF ~qref_valid(r, q.array)
    THEN [ce |-> <<>>, err |-> "ErrCacheEntryCorrupted"]
    ELSE IF ~BodyInRange(r, q.array)
    THEN [ce |-> <<>>, err |-> "panic"]
    ELSE [ce |-> qref_read(r, q.array), err |-> "nil"]

bytesQueue_delete(q, r) ==
    IF q.count = 0 THEN [q |-> q, err |-> "ErrQueueEmpty"]
    ELSE IF r >= 0 /\ Len(q.array) >= sizeLen /\ ~InRange(q.array, r, r + sizeLen)
    THEN [q |-> q, err |-> "panic"]
    ELSE IF ~qref_valid(r, q.array) \/ r > q.right
    THEN [q |-> q, err |-> "ErrQueueInvalidIndex"]
    ELSE IF ~InRange(q.array, r + offHash, r + offHash + sizeHash)
    THEN [q |-> q, err |-> "panic"]
    ELSE [q |-> [q EXCEPT !.array = qref_clearHash(r, q.array)], err |-> "nil"]

\* A reset that gives half of the array back.
bytesQueue_reset_Shrunk(q) ==
    [q EXCEPT !.tail = 0, !.head = 0, !.right = 0, !.count = 0,
              !.array = Zeros(Len(q.array) \div 2)]

\* A reset that leaves the right margin where it was.
bytesQueue_reset_RightKept(q) == [q EXCEPT !.tail = 0, !.head = 0, !.count = 0]

bytesQueue_reset(q) == [q EXCEPT !.tail = 0, !.head = 0, !.right = 0, !.count = 0]

(***************************************************************************)
(* shard.go: the shard.  A shard is the record                             *)
(*   [hashmap, entries, onRemove, lifeWindow, stats, calls]                *)
(* where hashmap is a function from the bound hashes to offsets, entries   *)
(* is the queue, onRemove tells whether a callback is installed and calls  *)
(* is the sequence of invocations of that callback made by the operation   *)
(* in progress, each with the entry and the reason it was given.           *)
(***************************************************************************)
NoReason == 0
Expired == 1
NoSpace == 2
Deleted == 3
minimumEntriesInShard == 10

\* A nil Processor; any other value of f is the error the processor returns.
NoProcessor == "none"
\* The processor cacheShard.append passes to getWithoutLock.
Appender == "appender"

ZeroStats ==
    [Hits |-> 0, Misses |-> 0, DelHits |-> 0, DelMisses |-> 0,
     Collisions |-> 0, EvictedExpired |-> 0, EvictedNoSpace |-> 0]

MapDelete(m, k) == [x \in DOMAIN m \ {k} |-> m[x]]
MapPut(m, k, v) == [x \in DOMAIN m \cup {k} |-> IF x = k THEN v ELSE m[x]]

cacheShard_hit(s) == [s EXCEPT !.stats.Hits = @ + 1]
cacheShard_miss(s) == [s EXCEPT !.stats.Misses = @ + 1]
cacheShard_delhit(s) == [s EXCEPT !.stats.DelHits = @ + 1]
cacheShard_delmiss(s) == [s EXCEPT !.stats.DelMisses = @ + 1]
cacheShard_collision(s) == [s EXCEPT !.stats.Collisions = @ + 1]
cacheShard_expired(s) == [s EXCEPT !.stats.EvictedExpired = @ + 1]
cacheShard_nospace(s) == [s EXCEPT !.stats.EvictedNoSpace = @ + 1]

\* current - ts > lifeWindow in uint64 arithmetic: when ts is newer than
\* current the difference wraps to 2^64 - (ts - current), which is above
\* every life window of the model.
AgeExceeds(current, ts, lifeWindow) ==
    IF current >= ts THEN current - ts > lifeWindow ELSE TRUE

initNewShard(initialCapacity, maximumShardSizeInBytes, onRemove_, lifeWindow_) ==
    [hashmap |-> <<>>,
     entries |-> newBytesQueue(
         IF maximumShardSizeInBytes > 0 /\ initialCapacity > maximumShardSizeInBytes
         THEN maximumShardSizeInBytes ELSE initialCapacity,
         maximumShardSizeInBytes),
     onRemove |-> onRemove_,
     lifeWindow |-> lifeWindow_,
     stats |-> ZeroStats,
     calls |-> <<>>]

\* getWithoutLock returns the payload (data), the error, and here also ce,
\* the entry view it handed to the processor.
cacheShard_getWithoutLock(s, key, hash, f) ==
    LET q == s.entries
        ref == s.hashmap[hash]
        none == [s |-> s, data |-> <<>>, ce |-> <<>>, err |-> "panic"]
        Processed(got) ==
            IF got.err # "nil"
            THEN [none EXCEPT !.s = cacheShard_hit(s)]
            ELSE [s |-> cacheShard_hit(s), data |-> <<>>, ce |-> got.ce,
                  err |-> IF f = Appender THEN "nil" ELSE f]
        Peeked(err) ==
            IF err = "panic"
            THEN none
            ELSE IF err # "nil"
            THEN [none EXCEPT !.s = cacheShard_miss(s), !.err = err]
            ELSE IF Len(key) > 0 /\ ~InRange(q.array, ref + offKeyLen,
                                        ref + offKeyStr + qref_keylen(ref, q.array))
            THEN none
            ELSE IF Len(key) > 0 /\ bytesQueue_collide(q, ref, key)
            THEN [none EXCEPT !.s = cacheShard_collision(s), !.err = "ErrEntryNotFound"]
            ELSE IF f # NoProcessor
            THEN Processed(bytesQueue_get(q, ref))
            ELSE IF ~BodyInRange(ref, q.array)
            THEN [none EXCEPT !.s = cacheShard_hit(s)]
            ELSE [s |-> cacheShard_hit(s), data |-> bytesQueue_getDataCopy(q, ref),
                  ce |-> <<>>, err |-> "nil"]
    IN  IF hash \notin DOMAIN s.hashmap
        THEN [none EXCEPT !.s = cacheShard_miss(s), !.err = "ErrEntryNotFound"]
        ELSE Peeked(bytesQueue_peek(q, ref))

\* evictOldest that takes a tombstone for an entry (shard.go:121-125 left
\* out).
cacheShard_evictOldest_TombstonesCounted(s, reason) ==
    LET Notified(s3, got) ==
            IF got.err = "panic" THEN [s |-> s3, err |-> "panic"]
            ELSE [s |-> [s3 EXCEPT !.calls = Append(@, [ce |-> got.ce,
                                                        reason |-> reason])],
                  err |-> "nil"]
        Counted(s3, p) ==
            IF ~s.onRemove THEN [s |-> s3, err |-> "nil"]
            ELSE Notified(s3, bytesQueue_get(p.q, p.ref))
        Unbound(s2, p) ==
            IF reason \notin {Expired, NoSpace} THEN [s |-> s2, err |-> "panic"]
            ELSE Counted(IF reason = Expired THEN cacheShard_expired(s2)
                                             ELSE cacheShard_nospace(s2), p)
        Hashed(s1, hash, p) ==
            Unbound([s1 EXCEPT !.hashmap = MapDelete(@, hash)], p)
        AfterPop(p) ==
            IF p.err # "nil" THEN [s |-> s, err |-> p.err]
            ELSE IF ~InRange(p.q.array, p.ref + offHash, p.ref + offKeyLen)
            THEN [s |-> [s EXCEPT !.entries = p.q], err |-> "panic"]
            ELSE Hashed([s EXCEPT !.entries = p.q], bytesQueue_getHash(p.q, p.ref), p)
    IN  AfterPop(bytesQueue_pop(s.entries))

cacheShard_evictOldest(s, reason) ==
    LET Notified(s3, got) ==
            IF got.err = "panic" THEN [s |-> s3, err |-> "panic"]
            ELSE [s |-> [s3 EXCEPT !.calls = Append(@, [ce |-> got.ce,
                                                        reason |-> reason])],
                  err |-> "nil"]
        Counted(s3, p) ==
            IF ~s.onRemove THEN [s |-> s3, err |-> "nil"]
            ELSE Notified(s3, bytesQueue_get(p.q, p.ref))
        Unbound(s2, p) ==
            IF reason \notin {Expired, NoSpace} THEN [s |-> s2, err |-> "panic"]
            ELSE Counted(IF reason = Expired THEN cacheShard_expired(s2)
                                             ELSE cacheShard_nospace(s2), p)
        Hashed(s1, hash, p) ==
            IF hash = 0 THEN [s |-> s1, err |-> "nil"]
            ELSE Unbound([s1 EXCEPT !.hashmap = MapDelete(@, hash)], p)
        AfterPop(p) ==
            IF p.err # "nil" THEN [s |-> s, err |-> p.err]
            ELSE IF ~InRange(p.q.array, p.ref + offHash, p.ref + offKeyLen)
            THEN [s |-> [s EXCEPT !.entries = p.q], err |-> "panic"]
            ELSE Hashed([s EXCEPT !.entries = p.q], bytesQueue_getHash(p.q, p.ref), p)
    IN  AfterPop(bytesQueue_pop(s.entries))

\* The error setWithoutLock returns when the eviction of its retry loop fails.
BiggerThanMaxShard(err) ==
    IF err = "panic" THEN "panic"
    ELSE IF err = "ErrQueueEmpty"
    THEN "new entry is bigger than max shard size: ErrQueueEmpty"
    ELSE "new entry is bigger than max shard size: ErrQueueInvalidIndex"

\* The retry loop binding the hash to the tail read before the push
\* instead of the offset the push returned (shard.go:86-87).
RECURSIVE setRetry_TailBeforePush(_, _)
setRetry_TailBeforePush(s, ce) ==
    LET Evicted(e) ==
            IF e.err # "nil" THEN [s |-> e.s, err |-> BiggerThanMaxShard(e.err)]
            ELSE setRetry_TailBeforePush(e.s, ce)
        Pushed(p) ==
            IF p.err = "nil"
            THEN [s |-> [s EXCEPT !.entries = p.q,
                                  !.hashmap = MapPut(@, ce.Hash, s.entries.tail)],
                  err |-> "nil"]
            ELSE IF p.err = "panic" THEN [s |-> s, err |-> "panic"]
            ELSE Evicted(cacheShard_evictOldest(s, NoSpace))
    IN  Pushed(bytesQueue_push(s.entries, ce))

\* The retry loop of setWithoutLock.
RECURSIVE setRetry(_, _)
setRetry(s, ce) ==
    LET Evicted(e) ==
            IF e.err # "nil" THEN [s |-> e.s, err |-> BiggerThanMaxShard(e.err)]
            ELSE setRetry(e.s, ce)
        Pushed(p) ==
            IF p.err = "nil"
            THEN [s |-> [s EXCEPT !.entries = p.q,
                                  !.hashmap = MapPut(@, ce.Hash, p.ref)],
                  err |-> "nil"]
            ELSE IF p.err = "panic" THEN [s |-> s, err |-> "panic"]
            ELSE Evicted(cacheShard_evictOldest(s, NoSpace))
    IN  Pushed(bytesQueue_push(s.entries, ce))

cacheShard_setWithoutLock(s, key, hash, entry, current) ==
    LET ce == [TS |-> current, Hash |-> hash, Key |-> key, Data |-> entry]
        Expire(e) ==
            IF e.err = "panic" THEN [s |-> e.s, err |-> "panic"]
            ELSE setRetry(e.s, ce)
        Aged(s1, o) ==
            IF o.err = "panic" THEN [s |-> s1, err |-> "panic"]
            ELSE IF o.err # "nil" THEN setRetry(s1, ce)
            ELSE IF ~InRange(s1.entries.array, o.ref + offTS, o.ref + offHash)
            THEN [s |-> s1, err |-> "panic"]
            ELSE IF AgeExceeds(current, bytesQueue_getTS(s1.entries, o.ref), s.lifeWindow)
            THEN Expire(cacheShard_evictOldest(s1, Expired))
            ELSE setRetry(s1, ce)
        Unbound(s1) == Aged(s1, bytesQueue_oldest(s1.entries))
        Tombstoned(d) ==
            IF d.err = "panic" THEN [s |-> s, err |-> "panic"]
            ELSE IF d.err = "nil"
            THEN Unbound([s EXCEPT !.entries = d.q, !.hashmap = MapDelete(@, hash)])
            ELSE Unbound(s)
    IN  IF hash \in DOMAIN s.hashmap
        THEN Tombstoned(bytesQueue_delete(s.entries, s.hashmap[hash]))
        ELSE Unbound(s)

cacheShard_set(s, key, hash, entry, current) ==
    cacheShard_setWithoutLock(s, key, hash, entry, current)

cacheShard_get(s, key, hash, f) == cacheShard_getWithoutLock(s, key, hash, f)

RECURSIVE cacheShard_cleanUp(_, _)
cacheShard_cleanUp(s, timestamp) ==
    LET Evicted(e) ==
            IF e.err = "panic" THEN [s |-> e.s, err |-> "panic"]
            ELSE IF e.err # "nil" THEN [s |-> e.s, err |-> "nil"]
            ELSE cacheShard_cleanUp(e.s, timestamp)
        Oldest(o) ==
            IF o.err = "panic" THEN [s |-> s, err |-> "panic"]
            ELSE IF o.err # "nil" THEN [s |-> s, err |-> "nil"]
            ELSE IF ~InRange(s.entries.array, o.ref + offTS, o.ref + offHash)
            THEN [s |-> s, err |-> "panic"]
            ELSE IF ~AgeExceeds(timestamp, bytesQueue_getTS(s.entries, o.ref), s.lifeWindow)
            THEN [s |-> s, err |-> "nil"]
            ELSE Evicted(cacheShard_evictOldest(s, Expired))
    IN  Oldest(bytesQueue_oldest(s.entries))

cacheShard_append(s, key, hash, entry, current) ==
    LET Looked(g) ==
            IF g.err \notin {"nil", "ErrEntryNotFound"}
            THEN [s |-> g.s, err |-> g.err]
            ELSE cacheShard_setWithoutLock(
                     g.s, key, hash,
                     IF g.err = "nil" THEN g.ce.Data \o entry ELSE entry, current)
    IN  Looked(cacheShard_getWithoutLock(s, key, hash, Appender))

\* del that tombstones the entry and keeps its binding in the map
\* (shard.go:183 left out).
cacheShard_del_BindingKept(s, hash) ==
    LET Removed(s1, got) ==
            IF ~s.onRemove THEN [s |-> cacheShard_delhit(s1), err |-> "nil"]
            ELSE IF got.err # "nil" THEN [s |-> s1, err |-> "panic"]
            ELSE [s |-> cacheShard_delhit(
                      [s1 EXCEPT !.calls = Append(@, [ce |-> [got.ce EXCEPT !.Hash = hash],
                                                       reason |-> Deleted])]),
                  err |-> "nil"]
        Tombstoned(ref, d) ==
            IF d.err = "panic" THEN [s |-> s, err |-> "panic"]
            ELSE IF d.err # "nil" THEN [s |-> cacheShard_delmiss(s), err |-> d.err]
            ELSE Removed([s EXCEPT !.entries = d.q], bytesQueue_get(d.q, ref))
    IN  IF hash \notin DOMAIN s.hashmap
        THEN [s |-> cacheShard_delmiss(s), err |-> "ErrEntryNotFound"]
        ELSE Tombstoned(s.hashmap[hash], bytesQueue_delete(s.entries, s.hashmap[hash]))

cacheShard_del(s, hash) ==
    LET Removed(s1, got) ==
            IF ~s.onRemove THEN [s |-> cacheShard_delhit(s1), err |-> "nil"]
            ELSE IF got.err # "nil" THEN [s |-> s1, err |-> "panic"]
            ELSE [s |-> cacheShard_delhit(
                      [s1 EXCEPT !.calls = Append(@, [ce |-> [got.ce EXCEPT !.Hash = hash],
                                                       reason |-> Deleted])]),
                  err |-> "nil"]
        Tombstoned(ref, d) ==
            IF d.err = "panic" THEN [s |-> s, err |-> "panic"]
            ELSE IF d.err # "nil" THEN [s |-> cacheShard_delmiss(s), err |-> d.err]
            ELSE Removed([s EXCEPT !.entries = d.q, !.hashmap = MapDelete(@, hash)], bytesQueue_get(d.q, ref))
    IN  IF hash \notin DOMAIN s.hashmap
        THEN [s |-> cacheShard_delmiss(s), err |-> "ErrEntryNotFound"]
        ELSE Tombstoned(s.hashmap[hash], bytesQueue_delete(s.entries, s.hashmap[hash]))

\* A reset that starts the counters again.
cacheShard_reset_StatsCleared(s) ==
    [s EXCEPT !.hashmap = <<>>, !.entries = bytesQueue_reset(@),
              !.stats = ZeroStats]

cacheShard_reset(s) ==
    [s EXCEPT !.hashmap = <<>>, !.entries = bytesQueue_reset(@)]

cacheShard_len(s) == Cardinality(DOMAIN s.hashmap)
cacheShard_cap(s) == bytesQueue_cap(s.entries)

(***************************************************************************)
(* bigcache.go and config.go: the controller.  The model follows one shard *)
(* of the cache, the one with index 0: the keys and hashes it draws are    *)
(* those getShard routes there (hash & shardMask = 0).                     *)
(***************************************************************************)
\* Bounds of the model.
MaxOps == 3
MaxTime == 3
MaxCap == 140

\* The configurations the model starts from: LifeWindow is in seconds,
\* HardMaxCacheSize in MB, OnRemove tells whether a callback is given.
Configs ==
    { [Shards |-> 8192, LifeWindow |-> 1, MaxEntriesInWindow |-> 0,
       MaxEntrySize |-> 7, HardMaxCacheSize |-> 0, OnRemove |-> TRUE],
      [Shards |-> 16384, LifeWindow |-> 1, MaxEntriesInWindow |-> 0,
       MaxEntrySize |-> 4, HardMaxCacheSize |-> 1, OnRemove |-> TRUE] }

Config_initialShardSize(c) ==
    Max(c.MaxEntriesInWindow \div c.Shards, minimumEntriesInShard)

convertMBToBytes(mb) == mb * 1024 * 1024

Config_maximumShardSizeInBytes(c) ==
    IF c.HardMaxCacheSize > 0
    THEN convertMBToBytes(c.HardMaxCacheSize) \div c.Shards
    ELSE 0

\* The shard newBigCache builds for configuration c.
NewShard(c) ==
    initNewShard(Config_initialShardSize(c) * c.MaxEntrySize,
                 Config_maximumShardSizeInBytes(c), c.OnRemove, c.LifeWindow)

\* The string keys the model uses, as their bytes ("", "a" and "b"), and
\* the configured Hasher: one under which these keys collide.
KeyA == <<97>>
KeyB == <<98>>
KeyEmpty == <<>>
Keys == {KeyEmpty, KeyA, KeyB}
Hasher_Sum64(c, key) == c.Shards

\* The hashes given to the hashed operations: zero, and one that no string
\* key of the model has.
HashedKeys(c) == {0, 2 * c.Shards}

BigCache_getShard(c, hashedKey) == hashedKey % c.Shards

\* Payloads, built as the tests' makeCacheBlob builds them.
Blob(char, n) == [i \in 1..n |-> char]
Small == Blob(7, 1)
Big == Blob(9, 23)
Payloads == {Small, Big}
AppendPayloads == {Blob(8, 1)}

VARIABLES
    config,   \* BigCache.config
    shard,    \* BigCache.shards[0]
    clk,      \* the last value clock.epoch() returned
    last,     \* the operation that ran last, its arguments and what it returned
    nops,     \* operations run so far
    queue,    \* a bytesQueue used on its own, as bytes_queue_test.go uses it
    live,     \* the entries pushed to queue and not popped since
    qlast,    \* the queue operation that ran last and what it returned
    npush,    \* entries pushed to queue so far
    nexp,     \* expansions of queue so far that found it wrapped
    rng,      \* a call of BigCache.Range: where it is and what it has done
    hist,     \* the payloads written under each hash, when they are recorded
    worker    \* the goroutine newBigCache starts, its ticker and BigCache.close

shardVars == <<config, shard, clk, last, nops, rng, hist, worker>>
queueVars == <<queue, live, qlast, npush, nexp>>
vars == <<config, shard, clk, last, nops, queue, live, qlast, npush, nexp, rng,
          hist, worker>>

NoOp == [op |-> "new", key |-> <<>>, hash |-> 0, entry |-> <<>>, now |-> 0,
         err |-> "nil", data |-> <<>>]

\* A shard that has served SetHashed(2 * Shards, Big) at time 0 and then
\* Set("a", Small) at time 1, as the operations of the model leave it.
Warm(c) ==
    cacheShard_set(cacheShard_set(NewShard(c), <<>>, 2 * c.Shards, Big, 0).s,
                   KeyA, Hasher_Sum64(c, KeyA), Small, 1)

QNoOp == [op |-> "new", ref |-> -1, err |-> "nil", id |-> 0, gen |-> 0]

\* config.CleanWindow is 0: newBigCache starts no goroutine.  tick is the
\* time in the buffer of ticker.C, or -1; shards are the shards the call of
\* BigCache.cleanUp in progress has cleaned.
NoWorker == [pc |-> "none", closed |-> FALSE, tick |-> -1, t |-> 0,
             shards |-> {}, rounds |-> 0]

\* The writes are not recorded.
NoHist == [on |-> FALSE, written |-> {}, latest |-> <<>>]

\* No call of Range has started.
NoRange == [pc |-> "idle", refs |-> <<>>, passed |-> <<>>, returned |-> <<>>,
            err |-> "nil", resident |-> {}, stored |-> {}, mutated |-> FALSE]

\* The queue of the queue-only specification is not used by the cache.
QueueIdle ==
    /\ queue = newBytesQueue(0, 0)
    /\ live = {}
    /\ qlast = QNoOp
    /\ npush = 0
    /\ nexp = 0

\* The cache as newBigCache builds it, or after the two operations of Warm.
Init ==
    /\ QueueIdle
    /\ config \in Configs
    /\ nops = 0
    /\ rng = NoRange
    /\ hist = NoHist
    /\ worker = NoWorker
    /\ \/ /\ shard = NewShard(config)
          /\ clk = 0
          /\ last = NoOp
       \/ \E w \in {Warm(config)} :
          /\ shard = w.s
          /\ clk = 1
          /\ last = [op |-> "set", key |-> KeyA, hash |-> Hasher_Sum64(config, KeyA),
                     entry |-> Small, now |-> 1, err |-> w.err, data |-> <<>>]

\* An operation may start: the process has not panicked, and the model's
\* bound on the number of operations is not reached.
CanRun == last.err # "panic" /\ nops < MaxOps

\* The shard as an operation finds it: no callback invoked yet.
Fresh == [shard EXCEPT !.calls = <<>>]

\* The hash, key and payload of an entry, as the processor of Range sees them.
Content(ce) == [Hash |-> ce.Hash, Key |-> ce.Key, Data |-> ce.Data]

\* The entries s stores: those its index binds under their own hash.
Stored(s) ==
    {Content(qref_read(s.hashmap[h], s.entries.array)) :
        h \in {g \in DOMAIN s.hashmap :
                  /\ bytesQueue_get(s.entries, s.hashmap[g]).err = "nil"
                  /\ bytesQueue_getHash(s.entries, s.hashmap[g]) = g}}

\* What a call of Range in progress has to do with an operation that leaves
\* the shard as s: the operation ran during the call.
RangeSees(s) ==
    IF rng.pc # "refs" THEN rng
    ELSE [rng EXCEPT !.stored = @ \cup Stored(s), !.mutated = TRUE]

\* The record of writes after an operation that returned err and left the
\* shard as s: a set or an append that returned no error has written, under
\* hash, the payload the index of s now binds hash to.
HistSees(s, op, hash, err) ==
    IF ~hist.on \/ err # "nil" \/ op \notin {"set", "append"} THEN hist
    ELSE LET Wrote(v) ==
                 [hist EXCEPT !.written = @ \cup {<<hash, v>>},
                              !.latest = MapPut(@, hash, v)]
         IN  Wrote(qref_data(s.hashmap[hash], s.entries.array))

\* The state an operation leaves: r is what the shard operation returned.
\* A panic ends the process; the model keeps the shard it had.
Finish(r, op, key, hash, entry, now, data) ==
    /\ bytesQueue_cap(r.s.entries) <= MaxCap
    /\ shard' = IF r.err = "panic" THEN shard ELSE r.s
    /\ last' = [op |-> op, key |-> key, hash |-> hash, entry |-> entry,
                now |-> now, err |-> r.err, data |-> data]
    /\ nops' = nops + 1
    /\ rng' = RangeSees(shard')
    /\ hist' = HistSees(shard', op, hash, r.err)
    /\ UNCHANGED <<config, queue, live, qlast, npush, nexp, worker>>

\* clock.epoch(): the clock does not run backwards.
Epochs == {t \in {clk, clk + 1} : t <= MaxTime}

DoGet(key, hash) ==
    /\ CanRun
    /\ BigCache_getShard(config, hash) = 0
    /\ \E r \in {cacheShard_get(Fresh, key, hash, NoProcessor)} :
        /\ Finish(r, "get", key, hash, <<>>, clk, r.data)
        /\ UNCHANGED clk

Get == \E key \in Keys : DoGet(key, Hasher_Sum64(config, key))

GetHashed == \E hashedKey \in HashedKeys(config) : DoGet(<<>>, hashedKey)

DoSet(key, hash, entry, now) ==
    /\ CanRun
    /\ BigCache_getShard(config, hash) = 0
    /\ \E r \in {cacheShard_set(Fresh, key, hash, entry, now)} :
        /\ Finish(r, "set", key, hash, entry, now, <<>>)
        /\ clk' = now

Set ==
    \E key \in Keys, entry \in Payloads, now \in Epochs :
        DoSet(key, Hasher_Sum64(config, key), entry, now)

SetHashed ==
    \E hashedKey \in HashedKeys(config), entry \in Payloads, now \in Epochs :
        DoSet(<<>>, hashedKey, entry, now)

DoAppend(key, hash, entry, now) ==
    /\ CanRun
    /\ BigCache_getShard(config, hash) = 0
    /\ \E r \in {cacheShard_append(Fresh, key, hash, entry, now)} :
        /\ Finish(r, "append", key, hash, entry, now, <<>>)
        /\ clk' = now

Append_ ==
    \E key \in Keys, entry \in AppendPayloads, now \in Epochs :
        DoAppend(key, Hasher_Sum64(config, key), entry, now)

AppendHashed ==
    \E hashedKey \in HashedKeys(config), entry \in AppendPayloads, now \in Epochs :
        DoAppend(<<>>, hashedKey, entry, now)

DoDelete(key, hash) ==
    /\ CanRun
    /\ BigCache_getShard(config, hash) = 0
    /\ \E r \in {cacheShard_del(Fresh, hash)} :
        /\ Finish(r, "delete", key, hash, <<>>, clk, <<>>)
        /\ UNCHANGED clk

Delete == \E key \in Keys : DoDelete(key, Hasher_Sum64(config, key))

DeleteHashed == \E hashedKey \in HashedKeys(config) : DoDelete(<<>>, hashedKey)

Reset ==
    /\ CanRun
    /\ Finish([s |-> cacheShard_reset(Fresh), err |-> "nil"],
              "reset", <<>>, 0, <<>>, clk, <<>>)
    /\ UNCHANGED clk

\* BigCache.cleanUp as the worker calls it, with the time of its tick.
CleanUp ==
    /\ CanRun
    /\ \E currentTimestamp \in Epochs :
        \E r \in {cacheShard_cleanUp(Fresh, currentTimestamp)} :
            /\ Finish(r, "cleanUp", <<>>, 0, <<>>, currentTimestamp, <<>>)
            /\ clk' = currentTimestamp

\* The errors the processor handed to Range returns.
ProcessorReturns == {"nil", "ErrEntryNotFound", "ErrProcessor"}

\* Range up to the end of shard.copyRefs(): the snapshot of the index.  Go
\* ranges over the map in an order of its choice, so the snapshot is kept by
\* hash and RangeEntry takes any reference left.
RangeStart ==
    /\ last.err # "panic"
    /\ rng.pc = "idle"
    /\ rng' = [pc |-> IF DOMAIN shard.hashmap = {} THEN "done" ELSE "refs",
               refs |-> shard.hashmap, passed |-> <<>>, returned |-> <<>>,
               err |-> "nil", resident |-> Stored(shard),
               stored |-> Stored(shard), mutated |-> FALSE]
    /\ UNCHANGED <<config, shard, clk, last, nops, queue, live, qlast, npush, nexp,
                   hist, worker>>

\* One turn of the loop of Range: shard.getEntry with the duplicator, then
\* the processor on the copy.
RangeEntry ==
    /\ rng.pc = "refs"
    /\ \E h \in DOMAIN rng.refs, ret \in ProcessorReturns :
        \E g \in {bytesQueue_get(shard.entries, rng.refs[h])} :
          LET rest == MapDelete(rng.refs, h)
          IN  rng' =
                IF g.err # "nil"
                THEN [rng EXCEPT !.pc = "done", !.err = g.err]
                ELSE [rng EXCEPT
                        !.pc = IF ret = "nil" /\ DOMAIN rest # {}
                               THEN "refs" ELSE "done",
                        !.refs = rest,
                        !.passed = Append(@, g.ce),
                        !.returned = Append(@, ret),
                        !.err = IF ret = "ErrEntryNotFound" THEN "nil" ELSE ret]
    /\ UNCHANGED <<config, shard, clk, last, nops, queue, live, qlast, npush, nexp,
                   hist, worker>>

Next ==
    \/ Get
    \/ GetHashed
    \/ Set
    \/ SetHashed
    \/ Append_
    \/ AppendHashed
    \/ Delete
    \/ DeleteHashed
    \/ Reset
    \/ CleanUp

Spec == Init /\ [][Next]_vars

\* The cache with its writes recorded: the payloads the shard of Init holds
\* were written by the two operations of Warm.
HistInit ==
    /\ QueueIdle
    /\ config \in Configs
    /\ nops = 0
    /\ rng = NoRange
    /\ worker = NoWorker
    /\ \/ /\ shard = NewShard(config)
          /\ clk = 0
          /\ last = NoOp
          /\ hist = [NoHist EXCEPT !.on = TRUE]
       \/ \E w \in {Warm(config)} :
          /\ shard = w.s
          /\ clk = 1
          /\ last = [op |-> "set", key |-> KeyA, hash |-> Hasher_Sum64(config, KeyA),
                     entry |-> Small, now |-> 1, err |-> w.err, data |-> <<>>]
          /\ hist = [on |-> TRUE,
                     written |-> {<<2 * config.Shards, Big>>,
                                  <<Hasher_Sum64(config, KeyA), Small>>},
                     latest |-> MapPut(MapPut(<<>>, 2 * config.Shards, Big),
                                       Hasher_Sum64(config, KeyA), Small)]

HistNext ==
    \/ Get
    \/ GetHashed
    \/ Set
    \/ SetHashed
    \/ Append_
    \/ AppendHashed
    \/ Delete
    \/ CleanUp

HistSpec == HistInit /\ [][HistNext]_vars

(***************************************************************************)
(* The goroutine of newBigCache and BigCache.Close.  The shards of the     *)
(* cache other than shard hold nothing, no key of the model hashing to     *)
(* them; WorkerShards are the indexes the loop of BigCache.cleanUp visits. *)
(***************************************************************************)
WorkerShards == {0, 1}

\* The operations run in the specification of the worker.
MaxWorkerOps == 1

\* The rounds of BigCache.cleanUp the model counts.
MaxRounds == 1

\* The cache of Init with config.CleanWindow > 0: the goroutine waits in
\* its select.
WorkerInit ==
    /\ QueueIdle
    /\ config \in Configs
    /\ nops = 0
    /\ rng = NoRange
    /\ hist = NoHist
    /\ worker = [NoWorker EXCEPT !.pc = "select"]
    /\ \/ /\ shard = NewShard(config)
          /\ clk = 0
          /\ last = NoOp
       \/ \E w \in {Warm(config)} :
          /\ shard = w.s
          /\ clk = 1
          /\ last = [op |-> "set", key |-> KeyA, hash |-> Hasher_Sum64(config, KeyA),
                     entry |-> Small, now |-> 1, err |-> w.err, data |-> <<>>]

WorkerIdle == UNCHANGED <<config, shard, clk, last, nops, queue, live, qlast, npush,
                          nexp, rng, hist>>

\* The ticker sends the time on ticker.C, a channel with a buffer of one:
\* a tick that finds the buffer full is dropped.  The goroutine stops the
\* ticker as it returns.
Tick ==
    /\ worker.pc \in {"select", "cleanUp"}
    /\ worker.tick = -1
    /\ \E t \in Epochs :
        /\ worker' = [worker EXCEPT !.tick = t]
        /\ clk' = t
    /\ UNCHANGED <<config, shard, last, nops, queue, live, qlast, npush, nexp, rng,
                   hist>>

\* case t := <-ticker.C
WorkerReceive ==
    /\ worker.pc = "select"
    /\ worker.tick # -1
    /\ worker' = [worker EXCEPT !.pc = "cleanUp", !.t = worker.tick, !.tick = -1,
                                !.shards = {}]
    /\ WorkerIdle

\* The loop of BigCache.cleanUp left after its first turn.
WorkerCleanUp_FirstShardOnly ==
    /\ worker.pc = "cleanUp"
    /\ last.err # "panic"
    /\ \E i \in WorkerShards \ worker.shards :
        /\ \A j \in WorkerShards \ worker.shards : i <= j
        /\ \E r \in {cacheShard_cleanUp(Fresh, worker.t)} :
             shard' = IF i = 0 /\ r.err # "panic" THEN r.s ELSE shard
        /\ worker' = [worker EXCEPT !.shards = @ \cup {i}, !.pc = "select",
                                    !.rounds = Min(@ + 1, MaxRounds)]
    /\ UNCHANGED <<config, clk, last, nops, queue, live, qlast, npush, nexp, rng,
                   hist>>

\* One turn of the loop of BigCache.cleanUp, and the return to the select
\* after the last.
WorkerCleanUp ==
    /\ worker.pc = "cleanUp"
    /\ last.err # "panic"
    /\ \E i \in WorkerShards \ worker.shards :
        /\ \A j \in WorkerShards \ worker.shards : i <= j
        /\ \E r \in {cacheShard_cleanUp(Fresh, worker.t)} :
             shard' = IF i = 0 /\ r.err # "panic" THEN r.s ELSE shard
        /\ worker' = [worker EXCEPT
                        !.shards = @ \cup {i},
                        !.pc = IF worker.shards \cup {i} = WorkerShards
                               THEN "select" ELSE "cleanUp",
                        !.rounds = IF worker.shards \cup {i} = WorkerShards
                                   THEN Min(@ + 1, MaxRounds) ELSE @]
    /\ UNCHANGED <<config, clk, last, nops, queue, live, qlast, npush, nexp, rng,
                   hist>>

\* case <-cache.close
WorkerExit ==
    /\ worker.pc = "select"
    /\ worker.closed
    /\ worker' = [worker EXCEPT !.pc = "exited"]
    /\ WorkerIdle

\* BigCache.Close: close(c.close).
Close ==
    /\ worker.pc # "none"
    /\ ~worker.closed
    /\ worker' = [worker EXCEPT !.closed = TRUE]
    /\ WorkerIdle

WorkerNext ==
    \/ Tick
    \/ WorkerReceive
    \/ WorkerCleanUp
    \/ WorkerExit
    \/ Close
    \/ nops < MaxWorkerOps /\ Get
    \/ nops < MaxWorkerOps /\ Set
    \/ nops < MaxWorkerOps /\ Delete

\* WF_vars(WorkerCleanUp), spelled out: WorkerCleanUp is enabled exactly when
\* the worker is in BigCache.cleanUp and the process has not panicked, and a
\* step of it moves the worker on, so weak fairness says that the worker is
\* not in BigCache.cleanUp for ever.
WorkerCleanUpFair == []<>~(worker.pc = "cleanUp" /\ last.err # "panic")

\* The goroutine is scheduled, and a select that finds both channels ready
\* again and again does not take the tick for ever: Go picks among the
\* ready cases at random.
WorkerSpec ==
    /\ WorkerInit
    /\ [][WorkerNext]_vars
    /\ WF_vars(WorkerReceive)
    /\ WorkerCleanUpFair
    /\ SF_vars(WorkerExit)

\* The operations run in the specification of Range.
MaxRangeOps == 2

\* The cache with one call of Range, which runs alongside the operations
\* that write: each holds the lock of the shard for the whole of a step.
RangeNext ==
    \/ RangeStart
    \/ RangeEntry
    \/ nops < MaxRangeOps /\ Set
    \/ nops < MaxRangeOps /\ SetHashed
    \/ nops < MaxRangeOps /\ Append_
    \/ nops < MaxRangeOps /\ Delete
    \/ nops < MaxRangeOps /\ CleanUp

RangeSpec == Init /\ [][RangeNext]_vars


(***************************************************************************)
(* The queue on its own: push, pop, delete and reset called directly, as   *)
(* bytes_queue_test.go calls them.  live records each entry pushed and not *)
(* popped: its offset, the entry, the rank id of its push, the number gen  *)
(* of wrapped expansions before its push, and whether delete has marked    *)
(* it since.                                                               *)
(***************************************************************************)
MaxPush == 5

\* The (initialCapacity, maxCapacity) pairs newBytesQueue is called with.
QueueConfigs == {<<70, 0>>, <<40, 64>>, <<20, 0>>, <<20, 100>>, <<20, 44>>}

\* The entries pushed: the hash of an entry is the rank of its push.
QEntry(id, key, data) == [TS |-> 5, Hash |-> id, Key |-> key, Data |-> data]

QInit ==
    /\ \E c \in QueueConfigs : queue = newBytesQueue(c[1], c[2])
    /\ live = {}
    /\ qlast = QNoOp
    /\ npush = 0
    /\ nexp = 0
    /\ config = CHOOSE c \in Configs : c.HardMaxCacheSize = 0
    /\ shard = NewShard(config)
    /\ clk = 0
    /\ last = NoOp
    /\ nops = 0
    /\ rng = NoRange
    /\ hist = NoHist
    /\ worker = NoWorker

QPush ==
    \E key \in {KeyEmpty}, data \in Payloads :
      \E p \in {bytesQueue_push(queue, QEntry(npush + 1, key, data))} :
        /\ npush < MaxPush
        /\ p.err # "panic"
        /\ bytesQueue_cap(p.q) <= MaxCap
        /\ queue' = p.q
        /\ nexp' = IF p.err = "nil" /\ queue.tail < queue.head
                       /\ bytesQueue_cap(p.q) > bytesQueue_cap(queue)
                    THEN nexp + 1 ELSE nexp
        /\ npush' = IF p.err = "nil" THEN npush + 1 ELSE npush
        /\ live' = IF p.err = "nil"
                    THEN live \cup
                         {[ref |-> p.ref, ce |-> QEntry(npush + 1, key, data),
                           id |-> npush + 1, gen |-> nexp', dead |-> FALSE]}
                    ELSE live
        /\ qlast' = [op |-> "push", ref |-> p.ref, err |-> p.err,
                     id |-> npush + 1, gen |-> nexp']
        /\ UNCHANGED shardVars

QPop ==
    \E p \in {bytesQueue_pop(queue)} :
        /\ qlast.op # "new" \/ queue.count > 0
        /\ p.err # "panic"
        /\ queue' = p.q
        /\ live' = IF p.err = "nil" THEN {e \in live : e.ref # p.ref} ELSE live
        /\ qlast' = IF p.err = "nil" /\ \E e \in live : e.ref = p.ref
                    THEN LET e == CHOOSE x \in live : x.ref = p.ref
                         IN  [op |-> "pop", ref |-> p.ref, err |-> p.err,
                              id |-> e.id, gen |-> e.gen]
                    ELSE [op |-> "pop", ref |-> p.ref, err |-> p.err,
                          id |-> 0, gen |-> 0]
        /\ UNCHANGED <<npush, nexp>>
        /\ UNCHANGED shardVars

QDelete ==
    \E e \in live :
      \E d \in {bytesQueue_delete(queue, e.ref)} :
        /\ d.err = "nil"
        /\ queue' = d.q
        /\ live' = (live \ {e}) \cup {[e EXCEPT !.dead = TRUE]}
        /\ qlast' = [op |-> "delete", ref |-> e.ref, err |-> d.err,
                     id |-> e.id, gen |-> e.gen]
        /\ UNCHANGED <<npush, nexp>>
        /\ UNCHANGED shardVars

QReset ==
    /\ queue.count > 0
    /\ queue' = bytesQueue_reset(queue)
    /\ live' = {}
    /\ qlast' = [op |-> "reset", ref |-> -1, err |-> "nil", id |-> 0, gen |-> 0]
    /\ UNCHANGED <<npush, nexp>>
    /\ UNCHANGED shardVars

QNext == QPush \/ QPop \/ QDelete \/ QReset

QSpec == QInit /\ [][QNext]_vars

(***************************************************************************)
(* What the ring holds, as the code itself walks it.                       *)
(***************************************************************************)
\* The offsets successive pops return, oldest first.
RECURSIVE PopOrder(_)
PopOrder(q) ==
    LET p == bytesQueue_pop(q)
    IN  IF p.err # "nil" THEN <<>> ELSE <<p.ref>> \o PopOrder(p.q)

Range(f) == {f[i] : i \in DOMAIN f}

\* The operation that ran last returned no error.
Ok(op) == last.op = op /\ last.err = "nil"

\* The capacity the shard's ring was created with.
InitialCapacity == bytesQueue_cap(NewShard(config).entries)

\* The ring has been reallocated.
Expanded == bytesQueue_cap(shard.entries) > InitialCapacity

\* The entries in the ring that a set of the same key has replaced: the
\* tombstones that still carry key.
Replaced(key) ==
    {r \in Range(PopOrder(shard.entries)) :
        /\ BodyInRange(r, shard.entries.array)
        /\ qref_hash(r, shard.entries.array) = 0
        /\ qref_size(r, shard.entries.array) > offKeyStr
        /\ qref_key(r, shard.entries.array) = key}

(***************************************************************************)
(* C1  set(k, v) that returns ok makes the get(k) issued next return       *)
(* exactly v, also when the set wrapped, expanded the ring or evicted, and *)
(* also when it replaces an earlier value of k.                            *)
(***************************************************************************)
C1_SetThenGet ==
    Ok("set") =>
        LET g == cacheShard_get(shard, last.key, last.hash, NoProcessor)
        IN  g.err = "nil" /\ g.data = last.entry

\* A set of "a" that replaced an earlier, different payload of "a" in a ring
\* that was wrapped and had to expand.
C1_Witness ==
    /\ Ok("set")
    /\ last.key = KeyA
    /\ Expanded
    /\ \E r \in Replaced(KeyA) : qref_data(r, shard.entries.array) # last.entry
    /\ \E i \in DOMAIN PopOrder(shard.entries) :
            LET r == PopOrder(shard.entries)[i]
            IN  /\ qref_hash(r, shard.entries.array) = 0
                /\ qref_keylen(r, shard.entries.array) = 0
                /\ i > 1

\* An operation op has just run (the step is not a stuttering one).
Ran(op) == last'.op = op /\ nops' = nops + 1

(***************************************************************************)
(* C2  A delete that succeeds increments DelHits alone; after it get(k)    *)
(* returns EntryNotFound for every key k of the deleted hash, and a second *)
(* delete returns EntryNotFound and increments DelMisses alone.            *)
(***************************************************************************)
C2_DeleteThenGet ==
    [][(Ran("delete") /\ last'.err = "nil") =>
        LET d == cacheShard_del(shard', last'.hash)
        IN  /\ shard'.stats.DelHits = shard.stats.DelHits + 1
            /\ shard'.stats.DelMisses = shard.stats.DelMisses
            /\ \A key \in Keys :
                   Hasher_Sum64(config, key) = last'.hash =>
                       cacheShard_get(shard', key, last'.hash, NoProcessor).err
                           = "ErrEntryNotFound"
            /\ cacheShard_get(shard', <<>>, last'.hash, NoProcessor).err
                   = "ErrEntryNotFound"
            /\ d.err = "ErrEntryNotFound"
            /\ d.s.stats.DelMisses = shard'.stats.DelMisses + 1
            /\ d.s.stats.DelHits = shard'.stats.DelHits]_vars

\* A delete has succeeded on a key whose entry was not the only one.
C2_Witness ==
    /\ Ok("delete")
    /\ shard.stats.DelHits = 1
    /\ shard.entries.count > 1
    /\ DOMAIN shard.hashmap # {}

(***************************************************************************)
(* C3  (as claimed) After set(k1, v1) and then set(k2, v2) of two distinct *)
(* keys with one hash, get(k2) returns v2, get(k1) returns EntryNotFound   *)
(* and counts one collision and neither a hit nor a miss, and one entry    *)
(* of that hash is left.                                                   *)
(***************************************************************************)
Survivors(s, hash) ==
    {r \in Range(PopOrder(s.entries)) : qref_hash(r, s.entries.array) = hash}

C3_AfterCollision(k1, k2, hash, v2) ==
    LET g1 == cacheShard_get(shard', k1, hash, NoProcessor)
        g2 == cacheShard_get(shard', k2, hash, NoProcessor)
    IN  /\ g2.err = "nil" /\ g2.data = v2
        /\ g1.err = "ErrEntryNotFound"
        /\ g1.s.stats.Collisions = shard'.stats.Collisions + 1
        /\ g1.s.stats.Hits = shard'.stats.Hits
        /\ g1.s.stats.Misses = shard'.stats.Misses
        /\ hash \in DOMAIN shard'.hashmap
        /\ Cardinality(Survivors(shard', hash)) = 1

C3_Collision ==
    [][(/\ Ok("set") /\ Ran("set") /\ last'.err = "nil"
        /\ last'.hash = last.hash /\ last'.key # last.key) =>
            C3_AfterCollision(last.key, last'.key, last'.hash, last'.entry)]_vars

(***************************************************************************)
(* C4  (as claimed) After Append(k, p) returns ok, get(k) returns v        *)
(* followed by p if k was resident with payload v, and p alone if it was   *)
(* not: no binding for its hash, or a bound entry with another key.        *)
(***************************************************************************)
\* The entry bound to hash before the step was stored under key.
Resident(key, hash) ==
    /\ hash \in DOMAIN shard.hashmap
    /\ bytesQueue_peek(shard.entries, shard.hashmap[hash]) = "nil"
    /\ bytesQueue_getKey(shard.entries, shard.hashmap[hash]) = key

\* What the claim has get(k) return after the append of the step.
C4_Appended(key, hash, entry) ==
    LET post == cacheShard_get(shard', key, hash, NoProcessor)
        v == IF Resident(key, hash)
             THEN bytesQueue_getDataCopy(shard.entries, shard.hashmap[hash])
             ELSE <<>>
    IN  post.err = "nil" /\ post.data = v \o entry

C4_Append ==
    [][(/\ Ran("append") /\ last'.err = "nil"
        /\ last'.hash = Hasher_Sum64(config, last'.key)) =>
            C4_Appended(last'.key, last'.hash, last'.entry)]_vars

(***************************************************************************)
(* C4  (what holds) The same, for every key but the empty one.             *)
(***************************************************************************)
C4_AppendNamedKey ==
    [][(/\ Ran("append") /\ last'.err = "nil"
        /\ last'.hash = Hasher_Sum64(config, last'.key)
        /\ last'.key # KeyEmpty) =>
            C4_Appended(last'.key, last'.hash, last'.entry)]_vars

(***************************************************************************)
(* C6  (as claimed) After cleanUp(now) no entry bound in the index has a   *)
(* timestamp ts <= now with now - ts > lifeWindow.                         *)
(***************************************************************************)
BoundExpired(now) ==
    {h \in DOMAIN shard.hashmap :
        LET ts == qref_ts(shard.hashmap[h], shard.entries.array)
        IN  ts <= now /\ now - ts > shard.lifeWindow}

C6_CleanUp == Ok("cleanUp") => BoundExpired(last.now) = {}

(***************************************************************************)
(* C7  With a hard cap, the ring never holds more bytes than the cap.      *)
(***************************************************************************)
C7_HardCap ==
    shard.entries.maxCapacity > 0 =>
        bytesQueue_cap(shard.entries) <= shard.entries.maxCapacity

\* The ring grew, and doubling would have passed the cap.
C7_Witness ==
    /\ shard.entries.maxCapacity > 0
    /\ Expanded
    /\ 2 * InitialCapacity > shard.entries.maxCapacity
    /\ shard.entries.count > 1

(***************************************************************************)
(* C8  (as claimed) set fails with "new entry is bigger than max shard     *)
(* size" only for an entry whose encoded size is above the hard cap.       *)
(***************************************************************************)
BiggerThanMaxShardErrors ==
    {BiggerThanMaxShard("ErrQueueEmpty"), BiggerThanMaxShard("ErrQueueInvalidIndex")}

C8_TooBig ==
    (last.op = "set" /\ last.err \in BiggerThanMaxShardErrors) =>
        /\ shard.entries.maxCapacity > 0
        /\ offKeyStr + Len(last.key) + Len(last.entry) > shard.entries.maxCapacity

(***************************************************************************)
(* C9  (as claimed) With a callback installed, every stored entry that a   *)
(* set, an append or a cleanUp removes from the ring by eviction is given  *)
(* to the callback, with reason Expired or NoSpace and as it was stored.   *)
(***************************************************************************)
\* The entry bound at r before the step is gone after it.
Popped(r) ==
    \/ r \notin Range(PopOrder(shard'.entries))
    \/ ~BodyInRange(r, shard'.entries.array)
    \/ qref_read(r, shard'.entries.array) # qref_read(r, shard.entries.array)

C9_Callback ==
    [][(/\ shard.onRemove
        /\ Ran("set") \/ Ran("append") \/ Ran("cleanUp")) =>
            \A h \in DOMAIN shard.hashmap :
                LET r == shard.hashmap[h]
                IN  (/\ r \in Range(PopOrder(shard.entries))
                     /\ BodyInRange(r, shard.entries.array)
                     /\ qref_hash(r, shard.entries.array) = h
                     /\ (last'.op = "cleanUp" \/ last'.hash # h)
                     /\ Popped(r)) =>
                        \E i \in DOMAIN shard'.calls :
                            /\ shard'.calls[i].ce = qref_read(r, shard.entries.array)
                            /\ shard'.calls[i].reason \in {Expired, NoSpace}]_vars

(***************************************************************************)
(* C5  (as claimed) Pops follow the order of the pushes: when an entry is  *)
(* popped, every entry still in the ring was pushed after it.              *)
(***************************************************************************)
PoppedEntry == qlast.op = "pop" /\ qlast.err = "nil" /\ qlast.id # 0

C10_StableOffsets ==
    \A e \in live :
        /\ bytesQueue_peek(queue, e.ref) = "nil"
        /\ bytesQueue_get(queue, e.ref) =
               [ce |-> IF e.dead THEN [e.ce EXCEPT !.Hash = 0] ELSE e.ce,
                err |-> "nil"]

\* Entries of both segments of a wrapped ring have gone through its
\* expansion and through the push and the pop that followed.
C10_Witness ==
    /\ nexp > 0
    /\ qlast.op = "pop" /\ qlast.err = "nil"
    /\ \E a, b \in live :
           /\ a.gen < nexp /\ b.gen = nexp
           /\ ~a.dead /\ ~b.dead

(***************************************************************************)
(* C11  (as claimed) Every binding hash -> r of the index points at the    *)
(* start of an entry of the ring's live region, peek(r) succeeds, and the  *)
(* hash stored at r is the map key, for every hash the hashed operations   *)
(* accept and after any evictions.                                         *)
(***************************************************************************)
\* The offsets of the entries the ring holds, tombstones and plugs included.
LiveRefs(s) == Range(PopOrder(s.entries))

C11_IndexSound ==
    \A h \in DOMAIN shard.hashmap :
        LET r == shard.hashmap[h]
        IN  /\ r \in LiveRefs(shard)
            /\ bytesQueue_peek(shard.entries, r) = "nil"
            /\ bytesQueue_getHash(shard.entries, r) = h

(***************************************************************************)
(* C12  (as claimed) Every entry of the live region whose hash field h is  *)
(* nonzero is bound by the index under h and under no other hash, so no    *)
(* two entries of the ring carry the same nonzero hash.                    *)
(***************************************************************************)
C12_OneBindingPerEntry ==
    \A r \in LiveRefs(shard) :
        LET h == bytesQueue_getHash(shard.entries, r)
        IN  h # 0 =>
              /\ h \in DOMAIN shard.hashmap
              /\ shard.hashmap[h] = r
              /\ \A g \in DOMAIN shard.hashmap : shard.hashmap[g] = r => g = h

(***************************************************************************)
(* C12  (what holds) The same, counting the bindings of nonzero hashes.    *)
(***************************************************************************)
C12_OneNonzeroBindingPerEntry ==
    \A r \in LiveRefs(shard) :
        LET h == bytesQueue_getHash(shard.entries, r)
        IN  h # 0 =>
              /\ h \in DOMAIN shard.hashmap
              /\ shard.hashmap[h] = r
              /\ \A g \in DOMAIN shard.hashmap \ {0} : shard.hashmap[g] = r => g = h

(***************************************************************************)
(* Range.                                                                  *)
(***************************************************************************)
\* A call of Range has returned and no operation ran during it.
RangeAlone == rng.pc = "done" /\ ~rng.mutated

\* The entries passed to the processor, without their timestamps.
Passed == [i \in DOMAIN rng.passed |-> Content(rng.passed[i])]

\* The processor was called once for each entry of the set es.
OnceForEach(es) ==
    /\ Range(Passed) = es
    /\ \A i, j \in DOMAIN Passed : Passed[i] = Passed[j] => i = j

\* C13: a call of Range that no operation runs alongside calls the processor
\* once for each resident entry until the processor returns an error; on
\* EntryNotFound it stops there and returns no error, on any other error it
\* stops there and returns that error, and without an error it has visited
\* every resident entry and returns no error.
C13_Range ==
    RangeAlone =>
        /\ \A i \in DOMAIN rng.returned :
              rng.returned[i] # "nil" => i = Len(rng.returned)
        /\ Len(rng.passed) = Len(rng.returned)
        /\ Range(Passed) \subseteq rng.resident
        /\ \A i, j \in DOMAIN Passed : Passed[i] = Passed[j] => i = j
        /\ IF rng.returned # <<>> /\ rng.returned[Len(rng.returned)] # "nil"
           THEN rng.err = IF rng.returned[Len(rng.returned)] = "ErrEntryNotFound"
                          THEN "nil" ELSE rng.returned[Len(rng.returned)]
           ELSE rng.err = "nil" /\ OnceForEach(rng.resident)

\* C14: whatever operations run during a call of Range, each entry passed to
\* the processor has the hash, key and payload of one entry that was stored
\* at some moment of the call, and no entry is passed more than once.
C14_RangeConsistent ==
    /\ Range(Passed) \subseteq rng.stored
    /\ \A i, j \in DOMAIN Passed : Passed[i] = Passed[j] => i = j

\* The same, not looking at the hash the processor is given.
C14_RangeKeyAndPayload ==
    \A i \in DOMAIN Passed :
        \E e \in rng.stored : e.Key = Passed[i].Key /\ e.Data = Passed[i].Data

(***************************************************************************)
(* Writes as the readers see them.                                         *)
(***************************************************************************)
\* C15: a get that returns a payload returns the payload of the last set or
\* append of that hash that has returned, so that after set(k, v1) and then
\* set(k, v2) no get yields v1 and no get yields v2 before v1.
C15_ProgramOrder ==
    Ok("get") =>
        /\ last.hash \in DOMAIN hist.latest
        /\ last.data = hist.latest[last.hash]

\* C15: a get that returns a payload returns one that a set or an append of
\* that hash wrote, whole.
C15_WrittenUnderHash == Ok("get") => <<last.hash, last.data>> \in hist.written

(***************************************************************************)
(* The worker and Close.                                                   *)
(***************************************************************************)
\* C16: with a clean window configured, once Close has been called the
\* worker eventually exits, and after it has exited it cleans no shard;
\* Close leaves the cache as it is and the operations run after it as
\* before it; while the cache is not closed each tick is received, and the
\* worker returns to wait for the next one only after cleanUp on every shard.
C16_CloseStopsWorker ==
    /\ worker.closed ~> (worker.pc = "exited")
    /\ [][worker.pc = "exited" =>
            /\ worker' = worker
            /\ shard' # shard => nops' = nops + 1]_vars
    /\ [][worker.closed' # worker.closed =>
            /\ worker'.pc = worker.pc
            /\ <<shard, last, nops, clk>>' = <<shard, last, nops, clk>>]_vars
    /\ (worker.tick # -1 /\ ~worker.closed) ~> (worker.pc = "cleanUp" \/ worker.closed)
    /\ (worker.pc = "cleanUp") ~> (worker.pc = "select" /\ worker.shards = WorkerShards)
    /\ [][worker.pc = "cleanUp" /\ worker'.pc # "cleanUp" =>
            worker'.pc = "select" /\ worker'.shards = WorkerShards]_vars

\* The worker has cleaned every shard at least once, the cache has been
\* closed and the worker has exited.
C16_Witness == worker.pc = "exited" /\ worker.closed /\ worker.rounds > 0

(***************************************************************************)
(* Counters, capacity and reset.                                           *)
(***************************************************************************)
\* C17: no operation, reset included, lowers any of the seven counters of
\* the shard.
C17_CountersMonotonic ==
    [][\A c \in DOMAIN shard.stats : shard'.stats[c] >= shard.stats[c]]_vars

\* A reset has emptied the shard and left a counter above zero.
C17_Witness ==
    /\ Ok("reset")
    /\ \E c \in DOMAIN shard.stats : shard.stats[c] > 0
    /\ shard.hashmap = <<>>

\* C18: no operation makes the capacity of the shard's ring smaller than it
\* was: not set, append, delete or cleanUp, with their evictions and
\* expansions, and not reset.
C18_CapacityMonotonic ==
    [][cacheShard_cap(shard') >= cacheShard_cap(shard)]_vars

\* A reset has run on a ring that had been expanded.
C18_Witness == Ok("reset") /\ Expanded /\ shard.entries.count = 0

\* What set(key, entry) at time now and then get(key) return on the shard s.
SetThenGet(s, key, hash, entry, now) ==
    LET Read(g) == [set |-> "nil", get |-> g.err, data |-> g.data]
        Written(st) ==
            IF st.err # "nil" THEN [set |-> st.err, get |-> "nil", data |-> <<>>]
            ELSE Read(cacheShard_get(st.s, key, hash, NoProcessor))
    IN  Written(cacheShard_set(s, key, hash, entry, now))

\* A shard as initNewShard builds it, with the ring capacity shard has now.
FreshShard ==
    initNewShard(cacheShard_cap(shard), shard.entries.maxCapacity,
                 shard.onRemove, shard.lifeWindow)

\* The keys and hashes of the operations, with the hashed keys under the
\* empty key that GetHashed and SetHashed pass.
KeysAndHashes ==
    {<<key, Hasher_Sum64(config, key)>> : key \in Keys}
        \cup {<<KeyEmpty, h>> : h \in HashedKeys(config)}

\* The shard just after reset: nothing bound, the ring at its start, no
\* offset readable and no key found, and a set and a get going as they go
\* on a fresh shard.
AfterReset ==
    /\ shard.hashmap = <<>>
    /\ shard.entries.head = 0 /\ shard.entries.tail = 0
    /\ shard.entries.right = 0 /\ shard.entries.count = 0
    /\ cacheShard_len(shard) = 0
    /\ \A r \in 0 .. cacheShard_cap(shard) :
          bytesQueue_peek(shard.entries, r) = "ErrQueueEmpty"
    /\ \A kh \in KeysAndHashes :
          cacheShard_get(Fresh, kh[1], kh[2], NoProcessor).err = "ErrEntryNotFound"
    /\ \A kh \in KeysAndHashes, entry \in Payloads, now \in Epochs :
          /\ SetThenGet(Fresh, kh[1], kh[2], entry, now)
                = SetThenGet(FreshShard, kh[1], kh[2], entry, now)
          /\ SetThenGet(Fresh, kh[1], kh[2], entry, now).set = "nil"
                => SetThenGet(Fresh, kh[1], kh[2], entry, now)
                        = [set |-> "nil", get |-> "nil", data |-> entry]

\* C19: after reset the index is empty, the ring has head = tail = right =
\* count = 0 and the capacity it had, len is 0, peek of any offset reports
\* the queue empty and get of any key reports not found, and a set followed
\* by a get returns the payload as on a fresh cache.
C19_Reset ==
    /\ [](Ok("reset") => AfterReset)
    /\ [][last'.op = "reset" /\ nops' = nops + 1 =>
            cacheShard_cap(shard') = cacheShard_cap(shard)]_vars

\* A reset has run on a ring that had been expanded and still holds the
\* bytes of the entries written before.
C19_Witness ==
    /\ Ok("reset")
    /\ Expanded
    /\ shard.entries.array # Zeros(cacheShard_cap(shard))

(***************************************************************************)
(* The offsets of the ring.                                                *)
(***************************************************************************)
\* C20: between the operations of a ring, 0 <= head <= right <= capacity
\* and 0 <= tail <= capacity, right = tail whenever tail >= head, and the
\* ring counts no entry exactly when head = tail = right = 0.
C20_Offsets ==
    /\ 0 <= queue.head /\ queue.head <= queue.right
    /\ queue.right <= bytesQueue_cap(queue)
    /\ 0 <= queue.tail /\ queue.tail <= bytesQueue_cap(queue)
    /\ queue.tail >= queue.head => queue.right = queue.tail
    /\ queue.count = 0 <=> (queue.head = 0 /\ queue.tail = 0 /\ queue.right = 0)

\* A ring that was expanded while wrapped has wrapped again: its tail is
\* below its head, and the entries up to the right margin are still to be
\* popped.
C20_Witness ==
    /\ nexp > 0
    /\ queue.tail < queue.head
    /\ queue.right > queue.tail
    /\ queue.count > 0

(***************************************************************************)
(* The entries of the ring, as their size fields chain them.               *)
(***************************************************************************)
\* The number of entries that tile [from, to) of buf, each size field
\* leading to the start of the next entry or to to; -1 when they do not.
RECURSIVE EntriesIn(_, _, _)
EntriesIn(buf, from, to) ==
    LET Counted(n) == IF n < 0 THEN -1 ELSE n + 1
        Next_(size) ==
            IF size < offKeyStr \/ from + size > to THEN -1
            ELSE Counted(EntriesIn(buf, from + size, to))
    IN  IF from = to THEN 0
        ELSE IF from > to \/ ~InRange(buf, from, from + offKeyStr) THEN -1
        ELSE Next_(qref_size(from, buf))

\* The number of entries that tile the live region of q, or -1.
EntriesOf(q) ==
    LET Sum(a, b) == IF a < 0 \/ b < 0 THEN -1 ELSE a + b
    IN  IF q.tail >= q.head
        THEN EntriesIn(q.array, q.head, q.tail)
        ELSE Sum(EntriesIn(q.array, q.head, q.right),
                 EntriesIn(q.array, 0, q.tail))

\* C21: in every state of the ring the entries tile its live region, from
\* head to tail, or from head to right and then from 0 to tail, and count is
\* their number, live, tombstoned and plug entries alike.
C21_CountTiles == EntriesOf(queue) = queue.count

\* A ring that was expanded while wrapped holds the plug, not popped yet,
\* and a tombstone as well.
C21_Witness ==
    /\ nexp > 0
    /\ \E e \in live : e.dead
    /\ queue.count > Cardinality(live)

(***************************************************************************)
(* Where push writes.                                                      *)
(***************************************************************************)
\* The step is a push that returned no error.
Pushed == npush' = npush + 1

\* The entry the push of this step was given.
PushedEntry == (CHOOSE e \in live' : e.id = npush + 1).ce

\* C22: a push of s bytes on a ring with tail >= head writes at tail when
\* capacity - tail >= s, and otherwise at 0, leaving right at the old tail,
\* when head - 22 >= s, the capacity unchanged in both cases; otherwise the
\* ring grows.  The offset returned is where the entry was written.
C22_ReuseSpace ==
    [][Pushed /\ queue.tail >= queue.head =>
        LET s == CacheEntry_Size(PushedEntry)
        IN  /\ bytesQueue_get(queue', qlast'.ref) = [ce |-> PushedEntry, err |-> "nil"]
            /\ IF bytesQueue_cap(queue) - queue.tail >= s
               THEN /\ qlast'.ref = queue.tail
                    /\ bytesQueue_cap(queue') = bytesQueue_cap(queue)
               ELSE IF queue.head - SizeNil >= s
               THEN /\ qlast'.ref = 0
                    /\ queue'.right = queue.tail
                    /\ queue'.tail = s
                    /\ bytesQueue_cap(queue') = bytesQueue_cap(queue)
               ELSE bytesQueue_cap(queue') > bytesQueue_cap(queue)]_vars

\* A push has wrapped: the entry is at offset 0 of a ring that has not grown
\* and keeps older entries between head and right.
C22_Witness ==
    /\ qlast.op = "push" /\ qlast.err = "nil" /\ qlast.ref = 0
    /\ queue.tail < queue.head /\ queue.head < queue.right
    /\ bytesQueue_cap(queue) \in {c[1] : c \in QueueConfigs}

(***************************************************************************)
(* The capacity after an expansion.                                        *)
(***************************************************************************)
\* c, no larger than the hard cap of the ring when it has one.
Clamped(c) ==
    IF queue.maxCapacity > 0 /\ c > queue.maxCapacity THEN queue.maxCapacity ELSE c

\* The step is a push that reallocated the array.
Grown == Pushed /\ bytesQueue_cap(queue') # bytesQueue_cap(queue)

\* C23 (as claimed): a push of `minimum` bytes that expands the ring leaves
\* it with capacity max(capacity, minimum) * 2, clamped to the hard cap:
\* twice the entry size when the capacity was smaller than the entry.
C23_Doubling ==
    [][Grown =>
        bytesQueue_cap(queue')
            = Clamped(Max(bytesQueue_cap(queue), CacheEntry_Size(PushedEntry)) * 2)]_vars

\* C23 (as the code has it): the capacity after the expansion is twice the
\* old capacity when the entry is no larger than it, and otherwise twice
\* the sum of the old capacity and the entry size, clamped to the hard cap.
C23_DoublingOfSum ==
    [][Grown =>
        LET c == bytesQueue_cap(queue)
            minimum == CacheEntry_Size(PushedEntry)
        IN  bytesQueue_cap(queue')
              = Clamped((IF c < minimum THEN c + minimum ELSE c) * 2)]_vars

\* The first push on a ring smaller than its entry has expanded the ring to
\* twice the sum of the two sizes, or to its hard cap.
C23_Witness ==
    /\ qlast.op = "push" /\ qlast.err = "nil" /\ npush = 1 /\ queue.count = 1
    /\ \E c \in QueueConfigs :
        /\ c[1] < qref_size(qlast.ref, queue.array)
        /\ queue.maxCapacity = c[2]
        /\ bytesQueue_cap(queue)
             = Clamped((c[1] + qref_size(qlast.ref, queue.array)) * 2)

(***************************************************************************)
(* The expansion of a wrapped ring.                                        *)
(***************************************************************************)
\* The offsets of the entries that tile [from, to) of buf, in order.
RECURSIVE OffsetsIn(_, _, _)
OffsetsIn(buf, from, to) ==
    IF from >= to \/ ~InRange(buf, from, from + sizeLen)
          \/ qref_size(from, buf) <= 0
    THEN <<>>
    ELSE <<from>> \o OffsetsIn(buf, from + qref_size(from, buf), to)

\* The step is a push that expanded a wrapped ring.
GrownWrapped == Grown /\ queue.tail < queue.head

\* C24: when a wrapped ring expands, the gap [tail, head) becomes one plug
\* entry of size head - tail with hash 0, count goes up by one for the plug
\* and one for the entry pushed, and the pops that follow return the
\* entries of [0, tail), the plug, the entries of [head, right) and last
\* the entry pushed.
C24_WrappedExpansion ==
    [][GrownWrapped =>
        /\ qref_size(queue.tail, queue'.array) = queue.head - queue.tail
        /\ bytesQueue_getHash(queue', queue.tail) = 0
        /\ queue'.count = queue.count + 2
        /\ qlast'.ref = queue.right
        /\ PopOrder(queue')
             = OffsetsIn(queue.array, 0, queue.tail) \o <<queue.tail>>
                 \o OffsetsIn(queue.array, queue.head, queue.right)
                 \o <<qlast'.ref>>
        /\ \A r \in Range(OffsetsIn(queue.array, 0, queue.tail))
                 \cup Range(OffsetsIn(queue.array, queue.head, queue.right)) :
              bytesQueue_get(queue', r) = bytesQueue_get(queue, r)]_vars

\* A wrapped ring with entries in both of its segments has just expanded.
C24_Witness ==
    /\ qlast.op = "push" /\ qlast.err = "nil"
    /\ nexp > 0 /\ qlast.gen = nexp
    /\ \A e \in live : e.gen < nexp \/ e.id = qlast.id
    /\ queue.count >= 4

\* C25: whenever the ring is wrapped, the gap between tail and head has room
\* for a header at least, so that the plug an expansion writes into it is a
\* well-formed entry with hash 0 that ends where the gap ends.
C25_GapHoldsHeader ==
    /\ [](queue.tail < queue.head => queue.head - queue.tail >= SizeNil)
    /\ [][GrownWrapped =>
            /\ bytesQueue_get(queue', queue.tail).err = "nil"
            /\ bytesQueue_get(queue', queue.tail).ce.Hash = 0
            /\ CacheEntry_Size(bytesQueue_get(queue', queue.tail).ce)
                 = queue.head - queue.tail]_vars

\* A wrapped ring whose gap is exactly one header wide.
C25_Witness == queue.tail < queue.head /\ queue.head - queue.tail = SizeNil

(***************************************************************************)
(* pop and peek.                                                           *)
(***************************************************************************)
\* The step is a pop.
PopStep == qlast'.op = "pop"

\* C26: a pop on a ring that holds entries returns the head it found and
\* takes one off count, and every other offset pushed and not popped yet
\* still peeks and still reads its entry; a pop on an empty ring returns -1
\* with ErrQueueEmpty and changes nothing.
C26_Pop ==
    [][PopStep =>
        IF queue.count > 0
        THEN /\ qlast'.err = "nil"
             /\ qlast'.ref = queue.head
             /\ queue'.count = queue.count - 1
             /\ bytesQueue_cap(queue') = bytesQueue_cap(queue)
             /\ \A e \in live :
                  e.ref # queue.head =>
                    /\ bytesQueue_peek(queue', e.ref) = "nil"
                    /\ bytesQueue_get(queue', e.ref) = bytesQueue_get(queue, e.ref)
                    /\ bytesQueue_get(queue', e.ref).err = "nil"
                    /\ Content(bytesQueue_get(queue', e.ref).ce)
                         = Content([e.ce EXCEPT !.Hash = IF e.dead THEN 0 ELSE @])
        ELSE /\ qlast'.err = "ErrQueueEmpty"
             /\ qlast'.ref = -1
             /\ queue' = queue]_vars

\* A pop has taken the last entry below the right margin, bringing head
\* back to 0, and entries pushed after the ring wrapped are still there.
C26_Witness ==
    /\ qlast.op = "pop" /\ qlast.err = "nil" /\ qlast.ref > 0
    /\ queue.head = 0
    /\ live # {}

(***************************************************************************)
(* Pushes the hard cap refuses.                                            *)
(***************************************************************************)
\* The entries a push may be handed next.
Pushable == {QEntry(npush + 1, KeyEmpty, data) : data \in Payloads}

\* The entry is larger than the hard cap of the ring.
Oversized(q, ce) == q.maxCapacity > 0 /\ CacheEntry_Size(ce) > q.maxCapacity

\* The step is a push that returned an error.
FailedPush == qlast'.op = "push" /\ qlast'.err # "nil"

\* What successive pops would read, oldest first.
RECURSIVE PopContent(_)
PopContent(q) ==
    LET p == bytesQueue_pop(q)
    IN  IF p.err # "nil" THEN <<>>
        ELSE <<bytesQueue_get(q, p.ref)>> \o PopContent(p.q)

\* C27: a push the hard cap refuses returns ErrQueueFull or
\* ErrQueueEntryTooBig, never panics, and leaves head, tail, right, count,
\* capacity and the array as they were, so that the entries pushed before
\* pop in the same order with the same content; an entry larger than the
\* hard cap is always refused.
C27_RefusedPush ==
    /\ [](\A ce \in Pushable :
            LET p == bytesQueue_push(queue, ce)
            IN  /\ queue.maxCapacity > 0 => p.err # "panic"
                /\ Oversized(queue, ce) =>
                     p.err \in {"ErrQueueFull", "ErrQueueEntryTooBig"})
    /\ [][FailedPush =>
            /\ qlast'.err \in {"ErrQueueFull", "ErrQueueEntryTooBig"}
            /\ queue'.head = queue.head /\ queue'.tail = queue.tail
            /\ queue'.right = queue.right /\ queue'.count = queue.count
            /\ bytesQueue_cap(queue') = bytesQueue_cap(queue)
            /\ queue'.array = queue.array
            /\ live' = live
            /\ PopOrder(queue') = PopOrder(queue)
            /\ PopContent(queue') = PopContent(queue)
            /\ \A e \in live : ~e.dead =>
                 \E i \in 1..Len(PopContent(queue')) :
                     PopContent(queue')[i] = [ce |-> e.ce, err |-> "nil"]]_vars

\* A ring that grew to its hard cap and holds an entry has just refused a
\* push.
C27_Witness ==
    /\ qlast.op = "push" /\ qlast.err = "ErrQueueFull"
    /\ queue.maxCapacity > 0
    /\ bytesQueue_cap(queue) = queue.maxCapacity
    /\ \E e \in live : ~e.dead

(***************************************************************************)
(* peek at any offset: the ring of QSpec, and a caller that hands peek     *)
(* offsets on both sides of every bound peek tests.                        *)
(***************************************************************************)
PeekRefs(q) ==
    {-1, 0, q.head, q.tail, q.right, q.right + 1,
     bytesQueue_cap(q) - sizeLen, bytesQueue_cap(q) - 1, bytesQueue_cap(q) + 1}

\* peek has a value result only: it assigns to no field of the ring.
QPeek ==
    \E r \in PeekRefs(queue) :
        /\ qlast.err # "panic"
        /\ qlast' = [op |-> "peek", ref |-> r, err |-> bytesQueue_peek(queue, r),
                     id |-> 0, gen |-> 0]
        /\ UNCHANGED <<queue, live, npush, nexp>>
        /\ UNCHANGED shardVars

PeekNext == (qlast.err # "panic" /\ QNext) \/ QPeek

PeekSpec == QInit /\ [][PeekNext]_vars

\* C28: peek(r) returns ErrQueueEmpty when count is 0, else
\* ErrQueueInvalidIndex when r is negative or beyond right, else nil; it
\* never panics and leaves the ring as it was.
C28_Peek ==
    [][qlast'.op = "peek" =>
        /\ qlast'.err =
             IF queue.count = 0 THEN "ErrQueueEmpty"
             ELSE IF qlast'.ref < 0 \/ qlast'.ref > queue.right
                  THEN "ErrQueueInvalidIndex"
                  ELSE "nil"
        /\ queue' = queue]_vars

\* The same for the offsets whose four size bytes lie within the array.
C28_PeekWithinArray ==
    [][qlast'.op = "peek" /\ qlast'.ref + sizeLen <= bytesQueue_cap(queue) =>
        /\ qlast'.err =
             IF queue.count = 0 THEN "ErrQueueEmpty"
             ELSE IF qlast'.ref < 0 \/ qlast'.ref > queue.right
                  THEN "ErrQueueInvalidIndex"
                  ELSE "nil"
        /\ queue' = queue]_vars

(***************************************************************************)
(* Tombstones: what delete leaves of an entry, and what evictOldest does   *)
(* when one reaches head.                                                  *)
(***************************************************************************)
\* The offsets of the entries the ring holds, tombstones and plugs included.
EntryOffsets(q) == Range(PopOrder(q))

\* q2 is q with nothing but the hash field of the entry at r changed, to 0.
OnlyHashCleared(q, r, q2) ==
    LET Others(order) ==
            /\ PopOrder(q2) = order
            /\ \A o \in Range(order) \ {r} :
                 bytesQueue_get(q2, o) = bytesQueue_get(q, o)
        Marked(was, is) ==
            is.err = "nil" /\ is.ce = [was.ce EXCEPT !.Hash = 0]
    IN  /\ q2.head = q.head /\ q2.tail = q.tail /\ q2.right = q.right
        /\ q2.count = q.count /\ q2.maxCapacity = q.maxCapacity
        /\ bytesQueue_cap(q2) = bytesQueue_cap(q)
        /\ SubSeq(q2.array, 1, r + offHash) = SubSeq(q.array, 1, r + offHash)
        /\ SubSeq(q2.array, r + offKeyLen + 1, Len(q.array))
             = SubSeq(q.array, r + offKeyLen + 1, Len(q.array))
        /\ bytesQueue_getHash(q2, r) = 0
        /\ Others(PopOrder(q))
        /\ Marked(bytesQueue_get(q, r), bytesQueue_get(q2, r))

\* The hashes the first k pops of q read.
RECURSIVE PopHashes(_, _)
PopHashes(q, k) ==
    LET p == bytesQueue_pop(q)
    IN  IF k <= 0 \/ p.err # "nil" THEN <<>>
        ELSE <<bytesQueue_getHash(p.q, p.ref)>> \o PopHashes(p.q, k - 1)

\* The entry at head is a tombstone or a plug.
TombstoneAtHead(s) ==
    /\ bytesQueue_oldest(s.entries).err = "nil"
    /\ bytesQueue_getHash(s.entries, s.entries.head) = 0

\* The step is a Delete that found a binding and tombstoned its offset.
DeleteStep ==
    /\ last'.op = "delete" /\ last'.err = "nil"
    /\ last'.hash \in DOMAIN shard.hashmap

\* The step is a cleanUp that returned.
CleanUpStep == last'.op = "cleanUp" /\ last'.err = "nil"

\* The hashes of the entries the cleanUp of this step took from the ring.
Swept == PopHashes(shard.entries, shard.entries.count - shard'.entries.count)

\* C29: delete of the offset of an entry changes the hash field of that
\* entry and nothing else of the ring; evictOldest on a tombstone or plug at
\* head pops it, invokes no callback, leaves the index and both eviction
\* counters alone; a cleanUp calls back, counts and unbinds only for the
\* entries it pops whose hash field is not 0.
C29_Tombstone ==
    /\ [](\A r \in EntryOffsets(shard.entries) :
            \A d \in {bytesQueue_delete(shard.entries, r)} :
                d.err = "nil" /\ OnlyHashCleared(shard.entries, r, d.q))
    /\ [](TombstoneAtHead(Fresh) =>
            \A reason \in {Expired, NoSpace} :
                \A e \in {cacheShard_evictOldest(Fresh, reason)} :
                    /\ e.err = "nil"
                    /\ e.s.entries = bytesQueue_pop(shard.entries).q
                    /\ e.s.calls = <<>>
                    /\ e.s.hashmap = shard.hashmap
                    /\ e.s.stats = shard.stats)
    /\ [][DeleteStep =>
            OnlyHashCleared(shard.entries, shard.hashmap[last'.hash], shard'.entries)]_vars
    /\ [][CleanUpStep =>
            \A live_ \in {{i \in 1..Len(Swept) : Swept[i] # 0}} :
                /\ Len(shard'.calls) = IF shard.onRemove THEN Cardinality(live_) ELSE 0
                /\ shard'.stats.EvictedExpired
                     = shard.stats.EvictedExpired + Cardinality(live_)
                /\ shard'.stats.EvictedNoSpace = shard.stats.EvictedNoSpace
                /\ shard'.hashmap =
                     [h \in DOMAIN shard.hashmap \ {Swept[i] : i \in live_}
                         |-> shard.hashmap[h]]]_vars

\* Set, Delete, cleanUp: the cleanUp has popped the tombstone, the ring is
\* empty and nothing was counted as evicted or called back.
C29_Witness ==
    /\ last.op = "cleanUp" /\ last.err = "nil" /\ nops = 3
    /\ shard.stats.DelHits = 1
    /\ shard.entries.count = 0
    /\ shard.stats.EvictedExpired = 0 /\ shard.stats.EvictedNoSpace = 0
    /\ shard.calls = <<>>

(***************************************************************************)
(* The binding a set finds for its hash.                                   *)
(***************************************************************************)
\* The step is a set that returned, for a hash the index had bound.
SetOverBinding ==
    /\ last'.op = "set" /\ last'.err # "panic"
    /\ last'.hash \in DOMAIN shard.hashmap

\* The index binds the hash of the set to the offset it bound before.
StillBound ==
    /\ last'.hash \in DOMAIN shard'.hashmap
    /\ shard'.hashmap[last'.hash] = shard.hashmap[last'.hash]

\* The entry bound to the hash of the set is the one this set wrote.
BoundToNew ==
    /\ last'.err = "nil"
    /\ bytesQueue_get(shard'.entries, shard'.hashmap[last'.hash]) =
         [ce |-> [TS |-> last'.now, Hash |-> last'.hash,
                  Key |-> last'.key, Data |-> last'.entry],
          err |-> "nil"]

\* C30: a set that finds a binding for its hash removes it, whether or not
\* the old entry could be tombstoned: when set returns, with or without an
\* error, the index does not bind the hash to the offset of the previous
\* entry any more (unless the entry this set wrote went to that offset).
C30_OldBindingRemoved ==
    [][SetOverBinding /\ StillBound => BoundToNew]_vars

(***************************************************************************)
(* get with a processor: the cache of Spec, with GetWithProcessing and     *)
(* GetHashedWithProcessing among its operations.                           *)
(***************************************************************************)
\* The errors the processors handed to get return; get itself returns
\* neither of them on a path that does not run the processor.
GetProcessors == {"nil", "ErrProcessor"}

DoGetWithProcessing(key, hash, processor) ==
    /\ CanRun
    /\ BigCache_getShard(config, hash) = 0
    /\ \E r \in {cacheShard_get(Fresh, key, hash, processor)} :
        /\ Finish(r, "getWithProcessing", key, hash, <<>>, clk, r.data)
        /\ UNCHANGED clk

GetWithProcessing ==
    \E key \in Keys, processor \in GetProcessors :
        DoGetWithProcessing(key, Hasher_Sum64(config, key), processor)

GetHashedWithProcessing ==
    \E hashedKey \in HashedKeys(config), processor \in GetProcessors :
        DoGetWithProcessing(<<>>, hashedKey, processor)

GetNext == Next \/ GetWithProcessing \/ GetHashedWithProcessing

GetSpec == Init /\ [][GetNext]_vars

\* The step is a get, and what the counter named has gained in it.
GetStep == last'.op \in {"get", "getWithProcessing"}
Gained(counter) == shard'.stats[counter] - shard.stats[counter]

\* The get of the step returned a payload, or ran its processor.
Served ==
    \/ last'.op = "get" /\ last'.err = "nil"
    \/ last'.op = "getWithProcessing" /\ last'.err \in GetProcessors

\* C31: every get adds one to exactly one of Hits, Misses and Collisions,
\* to Hits exactly when it returns a payload or runs the processor, and
\* changes nothing else: ring, index and the other counters are as before,
\* and no entry is evicted.
C31_GetCounts ==
    [][GetStep =>
        /\ last'.err # "panic"
        /\ \A c \in {"Hits", "Misses", "Collisions"} : Gained(c) \in {0, 1}
        /\ Gained("Hits") + Gained("Misses") + Gained("Collisions") = 1
        /\ Gained("Hits") = 1 <=> Served
        /\ \A c \in {"DelHits", "DelMisses", "EvictedExpired", "EvictedNoSpace"} :
             Gained(c) = 0
        /\ shard'.entries = shard.entries
        /\ shard'.hashmap = shard.hashmap
        /\ shard'.calls = <<>>]_vars

\* The same for the gets that return.
C31_GetCountsUnlessPanic ==
    [][GetStep /\ last'.err # "panic" =>
        /\ \A c \in {"Hits", "Misses", "Collisions"} : Gained(c) \in {0, 1}
        /\ Gained("Hits") + Gained("Misses") + Gained("Collisions") = 1
        /\ Gained("Hits") = 1 <=> Served
        /\ \A c \in {"DelHits", "DelMisses", "EvictedExpired", "EvictedNoSpace"} :
             Gained(c) = 0
        /\ shard'.entries = shard.entries
        /\ shard'.hashmap = shard.hashmap
        /\ shard'.calls = <<>>]_vars

\* A get has collided and a later get with a processor has been served.
C31_Witness ==
    /\ last.op = "getWithProcessing" /\ last.err = "ErrProcessor"
    /\ shard.stats.Collisions = 1 /\ shard.stats.Hits = 1
    /\ shard.entries.count > 0

(***************************************************************************)
(* The loops of setWithoutLock and cleanUp, one iteration a step.  While a *)
(* call is in its loop last.err is "running"; the shard's lock is held, so *)
(* no other operation starts.                                              *)
(***************************************************************************)
\* setWithoutLock up to its loop (shard.go:64-83): the old binding and the
\* expiry of the oldest entry.
setPrologue(s, hash, current) ==
    LET Expire(e) ==
            [s |-> e.s, err |-> IF e.err = "panic" THEN "panic" ELSE "nil"]
        Aged(s1, o) ==
            IF o.err = "panic" THEN [s |-> s1, err |-> "panic"]
            ELSE IF o.err # "nil" THEN [s |-> s1, err |-> "nil"]
            ELSE IF ~InRange(s1.entries.array, o.ref + offTS, o.ref + offHash)
            THEN [s |-> s1, err |-> "panic"]
            ELSE IF AgeExceeds(current, bytesQueue_getTS(s1.entries, o.ref), s.lifeWindow)
            THEN Expire(cacheShard_evictOldest(s1, Expired))
            ELSE [s |-> s1, err |-> "nil"]
        Unbound(s1) == Aged(s1, bytesQueue_oldest(s1.entries))
        Marked(d) ==
            IF d.err = "panic" THEN [s |-> s, err |-> "panic"]
            ELSE IF d.err = "nil"
            THEN Unbound([s EXCEPT !.entries = d.q, !.hashmap = MapDelete(@, hash)])
            ELSE Unbound(s)
    IN  IF hash \in DOMAIN s.hashmap
        THEN Marked(bytesQueue_delete(s.entries, s.hashmap[hash]))
        ELSE Unbound(s)

\* An iteration that gives up at the first push that fails, without evicting
\* (shard.go:90-92 returning the error of the push).
setIteration_NoRetry(s, ce) ==
    LET Kept(p) ==
            IF p.err = "nil"
            THEN [s |-> [s EXCEPT !.entries = p.q,
                                  !.hashmap = MapPut(@, ce.Hash, p.ref)],
                  err |-> "nil", done |-> TRUE]
            ELSE IF p.err = "panic" THEN [s |-> s, err |-> "panic", done |-> TRUE]
            ELSE [s |-> s, err |-> BiggerThanMaxShard("ErrQueueEmpty"), done |-> TRUE]
    IN  Kept(bytesQueue_push(s.entries, ce))

\* One iteration of the loop of setWithoutLock (shard.go:85-93); done says
\* that set returns, with err.
setIteration(s, ce) ==
    LET Evicted(e) ==
            IF e.err # "nil"
            THEN [s |-> e.s, err |-> BiggerThanMaxShard(e.err), done |-> TRUE]
            ELSE [s |-> e.s, err |-> "nil", done |-> FALSE]
        Kept(p) ==
            IF p.err = "nil"
            THEN [s |-> [s EXCEPT !.entries = p.q,
                                  !.hashmap = MapPut(@, ce.Hash, p.ref)],
                  err |-> "nil", done |-> TRUE]
            ELSE IF p.err = "panic" THEN [s |-> s, err |-> "panic", done |-> TRUE]
            ELSE Evicted(cacheShard_evictOldest(s, NoSpace))
    IN  Kept(bytesQueue_push(s.entries, ce))

\* One iteration of the loop of cleanUp (shard.go:103-113).
cleanUpIteration(s, timestamp) ==
    LET Evicted(e) ==
            IF e.err = "panic" THEN [s |-> e.s, err |-> "panic", done |-> TRUE]
            ELSE [s |-> e.s, err |-> "nil", done |-> e.err # "nil"]
        Oldest(o) ==
            IF o.err = "panic" THEN [s |-> s, err |-> "panic", done |-> TRUE]
            ELSE IF o.err # "nil" THEN [s |-> s, err |-> "nil", done |-> TRUE]
            ELSE IF ~InRange(s.entries.array, o.ref + offTS, o.ref + offHash)
            THEN [s |-> s, err |-> "panic", done |-> TRUE]
            ELSE IF ~AgeExceeds(timestamp, bytesQueue_getTS(s.entries, o.ref), s.lifeWindow)
            THEN [s |-> s, err |-> "nil", done |-> TRUE]
            ELSE Evicted(cacheShard_evictOldest(s, Expired))
    IN  Oldest(bytesQueue_oldest(s.entries))

Running == last.err = "running"

\* The entry the set in progress stores.
RunningEntry ==
    [TS |-> last.now, Hash |-> last.hash, Key |-> last.key, Data |-> last.entry]

\* A call enters its loop with the shard as pro leaves it.
Enter(pro, op, key, hash, entry, now) ==
    /\ shard' = IF pro.err = "panic" THEN shard ELSE pro.s
    /\ last' = [op |-> op, key |-> key, hash |-> hash, entry |-> entry,
                now |-> now, err |-> IF pro.err = "nil" THEN "running" ELSE pro.err,
                data |-> <<>>]
    /\ nops' = nops + 1
    /\ clk' = now
    /\ UNCHANGED <<config, queue, live, qlast, npush, nexp, worker, rng, hist>>

SetBegin ==
    \E kh \in KeysAndHashes, entry \in Payloads, now \in Epochs :
        /\ CanRun /\ ~Running
        /\ BigCache_getShard(config, kh[2]) = 0
        /\ bytesQueue_cap(cacheShard_set(Fresh, kh[1], kh[2], entry, now).s.entries)
             <= MaxCap
        /\ Enter(setPrologue(Fresh, kh[2], now), "set", kh[1], kh[2], entry, now)

AppendBegin ==
    \E kh \in KeysAndHashes, entry \in AppendPayloads, now \in Epochs :
      \E g \in {cacheShard_getWithoutLock(Fresh, kh[1], kh[2], Appender)} :
        /\ CanRun /\ ~Running
        /\ BigCache_getShard(config, kh[2]) = 0
        /\ bytesQueue_cap(cacheShard_append(Fresh, kh[1], kh[2], entry, now).s.entries)
             <= MaxCap
        /\ IF g.err \notin {"nil", "ErrEntryNotFound"}
           THEN Enter([s |-> g.s, err |-> g.err], "append", kh[1], kh[2], entry, now)
           ELSE Enter(setPrologue(g.s, kh[2], now), "append", kh[1], kh[2],
                      IF g.err = "nil" THEN g.ce.Data \o entry ELSE entry, now)

SetIterate ==
    /\ Running /\ last.op \in {"set", "append"}
    /\ \E it \in {setIteration(shard, RunningEntry)} :
        /\ shard' = IF it.err = "panic" THEN shard ELSE it.s
        /\ last' = [last EXCEPT !.err = IF it.done THEN it.err ELSE "running"]
    /\ UNCHANGED <<config, queue, live, qlast, npush, nexp, worker, rng, hist,
                   nops, clk>>

CleanUpBegin ==
    \E currentTimestamp \in Epochs :
        /\ CanRun /\ ~Running
        /\ Enter([s |-> Fresh, err |-> "nil"], "cleanUp", <<>>, 0, <<>>,
                 currentTimestamp)

CleanUpIterate ==
    /\ Running /\ last.op = "cleanUp"
    /\ \E it \in {cleanUpIteration(shard, last.now)} :
        /\ shard' = IF it.err = "panic" THEN shard ELSE it.s
        /\ last' = [last EXCEPT !.err = IF it.done THEN it.err ELSE "running"]
    /\ UNCHANGED <<config, queue, live, qlast, npush, nexp, worker, rng, hist,
                   nops, clk>>

LoopDelete == ~Running /\ (Delete \/ DeleteHashed)

LoopNext ==
    \/ SetBegin
    \/ AppendBegin
    \/ SetIterate
    \/ CleanUpBegin
    \/ CleanUpIterate
    \/ LoopDelete

\* The iteration a call in its loop would run next changes the state: it
\* returns or it leaves another shard.
Progresses ==
    \E it \in {IF last.op = "cleanUp" THEN cleanUpIteration(shard, last.now)
                                      ELSE setIteration(shard, RunningEntry)} :
        it.done \/ it.s # shard

\* The goroutine in a loop holds the lock and runs, so its next iteration is
\* taken: weak fairness of SetIterate \/ CleanUpIterate, written with
\* Running for ENABLED <<SetIterate \/ CleanUpIterate>>_vars (the guards of
\* the two actions, and Progresses in every state where Running holds).
LoopFair == []<>~Running \/ []<><<SetIterate \/ CleanUpIterate>>_vars

LoopSpec == Init /\ [][LoopNext]_vars /\ LoopFair

\* The step is an iteration of a loop, and the call stays in the loop.
Iterates == Running /\ last'.err = "running"

\* The step is the iteration in which set or append returns.
SetReturns ==
    /\ Running /\ last.op \in {"set", "append"}
    /\ last'.err # "running"

\* The whole handlers, as the operations of Spec run them, are the
\* iterations run to their end.
RECURSIVE Iterated(_, _)
Iterated(s, ce) ==
    LET Again(it) ==
            IF it.done THEN [s |-> it.s, err |-> it.err] ELSE Iterated(it.s, ce)
    IN  Again(setIteration(s, ce))

\* C32: set, append and cleanUp leave their loops; an iteration that does
\* not leave the loop takes exactly one entry from the ring; set returns
\* nil after a push that succeeded, or an error, and then the ring is empty.
C32_LoopsEnd ==
    /\ Running ~> ~Running
    /\ [](Running => Progresses)
    /\ [][Iterates =>
            /\ shard'.entries.count = shard.entries.count - 1
            /\ bytesQueue_pop(shard.entries).err = "nil"
            /\ shard'.entries = bytesQueue_pop(shard.entries).q]_vars
    /\ [][SetReturns =>
            IF last'.err = "nil"
            THEN /\ bytesQueue_push(shard.entries, RunningEntry).err = "nil"
                 /\ shard'.entries = bytesQueue_push(shard.entries, RunningEntry).q
            ELSE /\ last'.err \in BiggerThanMaxShardErrors
                 /\ shard'.entries.count = 0]_vars
    /\ [](Running /\ last.op \in {"set", "append"} =>
            Iterated(shard, RunningEntry) = setRetry(shard, RunningEntry))

\* A set is in its loop after two iterations that evicted, the ring empty.
C32_Witness ==
    /\ Running /\ last.op = "set"
    /\ shard.stats.EvictedNoSpace >= 2
    /\ shard.entries.count = 0

(***************************************************************************)
(* Expiry: the entries evicted with reason Expired, and the time they were *)
(* measured against.                                                       *)
(***************************************************************************)
\* The entries the callback received with reason Expired in the last call.
ExpiredEntries(s) ==
    {s.calls[i].ce : i \in {j \in 1..Len(s.calls) : s.calls[j].reason = Expired}}

\* The step is the goroutine's cleanUp of the shard, at the time of its tick.
WorkerCleansShard ==
    /\ worker.pc = "cleanUp"
    /\ worker.shards = {} /\ worker'.shards = {0}
    /\ last.err # "panic"

\* The step is a set.
SetRan == nops' = nops + 1 /\ last'.op = "set" /\ last'.err # "panic"

\* C33: cleanUp(now) and the check at the start of set evict as Expired
\* only entries with ts + lifeWindow < now; an entry as new as now or newer
\* is never evicted as expired.
C33_ExpiredOnlyWhenAged ==
    /\ [][WorkerCleansShard =>
            \A ce \in ExpiredEntries(shard') : ce.TS + shard.lifeWindow < worker.t]_vars
    /\ [][SetRan =>
            \A ce \in ExpiredEntries(shard') : ce.TS + shard.lifeWindow < last'.now]_vars

\* The same, but for the entries newer than now.
C33_ExpiredWhenAgedOrNewer ==
    /\ [][WorkerCleansShard =>
            \A ce \in ExpiredEntries(shard') :
                ce.TS > worker.t \/ ce.TS + shard.lifeWindow < worker.t]_vars
    /\ [][SetRan =>
            \A ce \in ExpiredEntries(shard') : ce.TS + shard.lifeWindow < last'.now]_vars

====
